---- MODULE Spec2Model ----
(***************************************************************************)
(* A model of the Tab Organizer extension: the Import Order strategy       *)
(* (importOrderStrategy.ts: reference extraction, path resolution, alias   *)
(* loading, tab-path matching, Kahn-style depth scores, the final sort).   *)
(*                                                                         *)
(* Strings.  A JavaScript string that names a path or an import specifier  *)
(* is modelled as the sequence of its "/"-separated segments (exactly what *)
(* split("/") returns), and each segment as the sequence of its tokens (a  *)
(* name, an extension such as ".ts", "index", ".", "..", "*").  "" is      *)
(* << <<>> >>, "/" is << <<>>, <<>> >>, "/w/s/a.ts" is                     *)
(* << <<>>, <<"w">>, <<"s">>, <<"a", ".ts">> >>.  Concatenation glues the  *)
(* last segment of the left string to the first segment of the right one.  *)
(***************************************************************************)
EXTENDS Integers, Sequences, FiniteSets, TLC

VARIABLES
    fileText,       \* environment: path -> [readable, refs]: the import specifiers, in match
                    \* order, of the text extractImports gets for it (open document, else disk)
    existing,       \* environment: the paths fs.existsSync reports as existing
    workspaceRoot,  \* environment: workspaceFolders[0].uri.fsPath, or None
    configs,        \* environment: the alias config candidates, in aliasConfigFiles order
    importGraph,    \* ImportOrderStrategy.importGraph
    importCache,    \* ImportOrderStrategy.importCache
    pathAliases,    \* ImportOrderStrategy.pathAliases (None is null)
    baseUrl,        \* ImportOrderStrategy.baseUrl (None is null)
    op,             \* the operation that produced the current state
    lastTabs,       \* argument of the last sort call
    lastSorted,     \* return value of the last sort call
    lastCalc,       \* what calculateImportScores computed in the last sort call
    repeated,       \* the last operation was a sort call right after a sort call with the same tabs
    probe,          \* the reference handed to resolveImportPath and what it returned
    matching,       \* the arguments handed to findMatchingTabPath and what it returned
    autoOrganize,   \* TabOrganizer.autoOrganize
    currentStrategy,    \* TabOrganizer.currentStrategy, by the name of its setting
    configuration,  \* environment: the tabOrganizer settings [autoOrganize, sortStrategy]
    pendingUpdates, \* environment: config.update calls that have not completed yet
    tabListeners,   \* the number of registered onDidChangeTabs listeners
    configListeners,    \* the number of registered onDidChangeConfiguration listeners
    triggered,      \* the number of organize calls that the listeners of the last tab-change
                    \* event make and that have not started yet
    groupTabs,      \* environment: the tabs of the editor group, in display order
    activeTab,      \* environment: the active tab of the group, or None
    run,            \* the organize run whose continuation is next: its position and its
                    \* local variables
    suspended       \* the other organize runs in flight, each suspended at an await

vars == <<fileText, existing, workspaceRoot, configs, importGraph, importCache,
          pathAliases, baseUrl, op, lastTabs, lastSorted, lastCalc, repeated, probe, matching,
          autoOrganize, currentStrategy, configuration, pendingUpdates, tabListeners,
          configListeners, triggered, groupTabs, activeTab, run, suspended>>

envVars == <<fileText, existing, workspaceRoot, configs>>
strategyVars == <<importGraph, importCache, pathAliases, baseUrl>>
sortVars == <<lastTabs, lastSorted, lastCalc>>
callVars == <<probe, matching>>
organizerVars == <<autoOrganize, currentStrategy, configuration, pendingUpdates,
                   tabListeners, configListeners, triggered>>
groupVars == <<groupTabs, activeTab, run, suspended>>

\* undefined / null where a string (a non-empty sequence of segments) is expected
None == <<>>

Max(S) == CHOOSE x \in S : \A y \in S : x >= y
Range(f) == {f[x] : x \in DOMAIN f}
Front(s) == SubSeq(s, 1, Len(s) - 1)
Last(s) == s[Len(s)]

(***************************************************************************)
(* String primitives                                                       *)
(***************************************************************************)
EmptyStr == << <<>> >>
Slash == << <<>>, <<>> >>
Lit(tok) == << <<tok>> >>

\* x + y
StrCat(x, y) == Front(x) \o << Last(x) \o y[1] >> \o Tail(y)

\* s.startsWith(p)
StartsWith(s, p) ==
    /\ Len(s) >= Len(p)
    /\ \A i \in 1..(Len(p) - 1) : s[i] = p[i]
    /\ Len(s[Len(p)]) >= Len(p[Len(p)])
    /\ SubSeq(s[Len(p)], 1, Len(p[Len(p)])) = p[Len(p)]

\* s.slice(p.length), for a p that s starts with
SliceAfter(s, p) ==
    << SubSeq(s[Len(p)], Len(p[Len(p)]) + 1, Len(s[Len(p)])) >>
        \o SubSeq(s, Len(p) + 1, Len(s))

DotTokens == {".", "..", ".ts", ".tsx", ".js", ".jsx"}

\* s.startsWith(".")
StartsWithDot(s) == Len(s[1]) > 0 /\ s[1][1] \in DotTokens

\* s.startsWith("/")
StartsWithSlash(s) == Len(s) >= 2 /\ s[1] = <<>>

\* s.replace(/\/\*$/, "")
StripWildcard(s) == IF Len(s) >= 2 /\ Last(s) = <<"*">> THEN Front(s) ELSE s

(***************************************************************************)
(* node:path (posix) on absolute paths                                     *)
(***************************************************************************)
RECURSIVE NormalizeSegments(_, _)
NormalizeSegments(segs, acc) ==
    IF segs = <<>> THEN acc
    ELSE LET h == Head(segs) IN
         IF h = <<>> \/ h = <<".">> THEN NormalizeSegments(Tail(segs), acc)
         ELSE IF h = <<"..">>
              THEN NormalizeSegments(Tail(segs), IF acc = <<>> THEN acc ELSE Front(acc))
              ELSE NormalizeSegments(Tail(segs), Append(acc, h))

\* path.resolve(dir, p), dir absolute
PathResolve(dir, p) ==
    LET body == NormalizeSegments(IF StartsWithSlash(p) THEN p ELSE dir \o p, <<>>)
    IN IF body = <<>> THEN Slash ELSE << <<>> >> \o body

\* path.join(a, b), a absolute: normalize(a + "/" + b); a trailing slash of b is kept
PathJoin(a, b) ==
    LET body == NormalizeSegments(a \o b, <<>>)
        trailing == b # EmptyStr /\ Last(b) = <<>>
    IN IF body = <<>> THEN Slash
       ELSE << <<>> >> \o body \o (IF trailing THEN << <<>> >> ELSE <<>>)

\* path.dirname(p), p an absolute normalized path
PathDirname(p) == IF Len(p) <= 2 THEN Slash ELSE Front(p)

(***************************************************************************)
(* resolveWithExtensions / fileExists                                      *)
(***************************************************************************)
Extensions == <<".ts", ".tsx", ".js", ".jsx", "">>
IndexExtensions == <<".ts", ".tsx", ".js", ".jsx">>

FileExists(exists, filePath) == filePath \in exists

\* resolved + ext
AppendExt(resolved, ext) == IF ext = "" THEN resolved ELSE StrCat(resolved, Lit(ext))

\* path.join(resolved, `index${ext}`)
IndexPath(resolved, ext) == PathJoin(resolved, << <<"index", ext>> >>)

\* a loop that returns the first candidate the probe reports, or None
RECURSIVE FirstExisting(_, _, _)
FirstExisting(exists, candidates, i) ==
    IF i > Len(candidates) THEN None
    ELSE IF FileExists(exists, candidates[i]) THEN candidates[i]
    ELSE FirstExisting(exists, candidates, i + 1)

\* fault injection: the bare candidate is probed before the extensions
ExtensionCandidatesBareFirst(resolved) ==
    << resolved >> \o [i \in 1..4 |-> AppendExt(resolved, IndexExtensions[i])]

ExtensionCandidates(resolved) ==
    [i \in 1..Len(Extensions) |-> AppendExt(resolved, Extensions[i])]

IndexCandidates(resolved) ==
    [i \in 1..Len(IndexExtensions) |-> IndexPath(resolved, IndexExtensions[i])]

ResolveWithExtensions(exists, resolved) ==
    LET first == FirstExisting(exists, ExtensionCandidates(resolved), 1)
    IN IF first # None THEN first
       ELSE FirstExisting(exists, IndexCandidates(resolved), 1)

(***************************************************************************)
(* loadPathAliases.  pathAliases is [loaded, map]: loaded = FALSE is null, *)
(* map is the Map's entries in insertion order.  A config candidate is     *)
(* [exists, parses, baseUrl, paths]; parses = FALSE stands for a read or   *)
(* JSON.parse error; paths is the sequence of Object.entries of            *)
(* compilerOptions.paths (<<>> when absent or empty), each entry           *)
(* [alias, isArray, targets, firstIsString].                               *)
(***************************************************************************)
NullAliases == [loaded |-> FALSE, map |-> <<>>]

\* Map.prototype.set: an existing key keeps its position
MapSet(map, key, value) ==
    IF \E i \in 1..Len(map) : map[i].alias = key
    THEN [i \in 1..Len(map) |->
            IF map[i].alias = key THEN [alias |-> key, target |-> value] ELSE map[i]]
    ELSE Append(map, [alias |-> key, target |-> value])

\* the loop over Object.entries(paths); threw = TRUE when targets[0].replace raised
RECURSIVE AddAliases(_, _, _)
AddAliases(entries, j, map) ==
    IF j > Len(entries) THEN [map |-> map, threw |-> FALSE]
    ELSE LET e == entries[j] IN
         IF e.isArray /\ Len(e.targets) > 0
         THEN IF ~e.firstIsString
              THEN [map |-> map, threw |-> TRUE]
              ELSE AddAliases(entries, j + 1,
                       MapSet(map, StripWildcard(e.alias), StripWildcard(e.targets[1])))
         ELSE AddAliases(entries, j + 1, map)

\* the loop over configFiles
RECURSIVE ScanConfigs(_, _, _, _, _)
ScanConfigs(root, cfgs, i, map, base) ==
    IF i > Len(cfgs) THEN [map |-> map, base |-> base]
    ELSE LET c == cfgs[i] IN
         IF ~c.exists \/ ~c.parses \/ c.paths = <<>>
         THEN ScanConfigs(root, cfgs, i + 1, map, base)
         ELSE LET newBase == IF c.baseUrl # None THEN PathResolve(root, c.baseUrl) ELSE root
                  added == AddAliases(c.paths, 1, map)
              IN IF added.threw
                 THEN ScanConfigs(root, cfgs, i + 1, added.map, newBase)
                 ELSE [map |-> added.map, base |-> newBase]

\* fault injection: an empty table counts as not loaded and is scanned for again
LoadPathAliasesRetryingEmpty(aliases, base, root, cfgs) ==
    IF aliases.loaded /\ aliases.map # <<>> THEN [pathAliases |-> aliases, baseUrl |-> base]
    ELSE IF root = None THEN [pathAliases |-> [loaded |-> TRUE, map |-> <<>>], baseUrl |-> base]
    ELSE LET r == ScanConfigs(root, cfgs, 1, <<>>, base)
         IN [pathAliases |-> [loaded |-> TRUE, map |-> r.map], baseUrl |-> r.base]

LoadPathAliases(aliases, base, root, cfgs) ==
    IF aliases.loaded THEN [pathAliases |-> aliases, baseUrl |-> base]
    ELSE IF root = None THEN [pathAliases |-> [loaded |-> TRUE, map |-> <<>>], baseUrl |-> base]
    ELSE LET r == ScanConfigs(root, cfgs, 1, <<>>, base)
         IN [pathAliases |-> [loaded |-> TRUE, map |-> r.map], baseUrl |-> r.base]

(***************************************************************************)
(* resolveImportPath                                                       *)
(***************************************************************************)
\* importPath === alias || importPath.startsWith(alias + "/")
AliasMatches(importPath, alias) ==
    importPath = alias \/ StartsWith(importPath, StrCat(alias, Slash))

\* fault injection: the remainder is the whole reference, the alias is not sliced off
RECURSIVE ResolveAliasWholeReference(_, _, _, _, _)
ResolveAliasWholeReference(exists, map, base, importPath, i) ==
    IF i > Len(map) THEN None
    ELSE IF AliasMatches(importPath, map[i].alias)
         THEN ResolveWithExtensions(exists,
                  PathJoin(base, StrCat(map[i].target, Slash \o importPath)))
         ELSE ResolveAliasWholeReference(exists, map, base, importPath, i + 1)

\* fault injection: an alias whose candidate probes to nothing is passed over
RECURSIVE ResolveAliasFallingThrough(_, _, _, _, _)
ResolveAliasFallingThrough(exists, map, base, importPath, i) ==
    IF i > Len(map) THEN None
    ELSE LET found == IF AliasMatches(importPath, map[i].alias)
                      THEN ResolveWithExtensions(exists,
                               PathJoin(base, StrCat(map[i].target,
                                                     SliceAfter(importPath, map[i].alias))))
                      ELSE None
         IN IF found # None THEN found
            ELSE ResolveAliasFallingThrough(exists, map, base, importPath, i + 1)

\* the loop over this.pathAliases: the first matching alias decides
RECURSIVE ResolveAlias(_, _, _, _, _)
ResolveAlias(exists, map, base, importPath, i) ==
    IF i > Len(map) THEN None
    ELSE IF AliasMatches(importPath, map[i].alias)
         THEN ResolveWithExtensions(exists,
                  PathJoin(base, StrCat(map[i].target, SliceAfter(importPath, map[i].alias))))
         ELSE ResolveAlias(exists, map, base, importPath, i + 1)

\* returns the resolved path (or None) and the alias state the call leaves behind
ResolveImportPath(env, aliases, base, fromFile, importPath) ==
    IF StartsWithDot(importPath) \/ StartsWithSlash(importPath)
    THEN [result |-> ResolveWithExtensions(env.existing,
                         PathResolve(PathDirname(fromFile), importPath)),
          pathAliases |-> aliases, baseUrl |-> base]
    ELSE LET l == LoadPathAliases(aliases, base, env.workspaceRoot, env.configs) IN
         [result |-> IF l.baseUrl # None
                     THEN ResolveAlias(env.existing, l.pathAliases.map, l.baseUrl, importPath, 1)
                     ELSE None,
          pathAliases |-> l.pathAliases, baseUrl |-> l.baseUrl]

(***************************************************************************)
(* extractImports / buildImportGraph.  A Set<string> is the sequence of    *)
(* its members in insertion order.  The strategy state is the record       *)
(* [importGraph, importCache, pathAliases, baseUrl].                       *)
(***************************************************************************)
InSeq(x, s) == \E i \in 1..Len(s) : s[i] = x

\* Set.prototype.add
SetAdd(s, x) == IF InSeq(x, s) THEN s ELSE Append(s, x)

\* the loop over the matches of the import patterns in the text
RECURSIVE ScanImports(_, _, _, _, _)
ScanImports(env, filePath, refs, i, acc) ==
    IF i > Len(refs) THEN acc
    ELSE LET r == ResolveImportPath(env, acc.pathAliases, acc.baseUrl, filePath, refs[i]) IN
         ScanImports(env, filePath, refs, i + 1,
             [imports |-> IF r.result # None THEN SetAdd(acc.imports, r.result)
                          ELSE acc.imports,
              pathAliases |-> r.pathAliases, baseUrl |-> r.baseUrl])

CacheSet(cache, filePath, imports) ==
    [p \in DOMAIN cache \cup {filePath} |-> IF p = filePath THEN imports ELSE cache[p]]

\* fault injection: the cache is never consulted
ExtractImportsNoCache(env, st, filePath) ==
    LET f == IF filePath \in DOMAIN env.fileText THEN env.fileText[filePath]
             ELSE [readable |-> FALSE, refs |-> <<>>]
        scan == ScanImports(env, filePath, IF f.readable THEN f.refs ELSE <<>>, 1,
                    [imports |-> <<>>, pathAliases |-> st.pathAliases, baseUrl |-> st.baseUrl])
    IN [imports |-> scan.imports,
        st |-> [st EXCEPT !.importCache = CacheSet(st.importCache, filePath, scan.imports),
                          !.pathAliases = scan.pathAliases, !.baseUrl = scan.baseUrl]]

\* fault injection: a cache hit returns an empty set
ExtractImportsEmptyOnHit(env, st, filePath) ==
    IF filePath \in DOMAIN st.importCache THEN [imports |-> <<>>, st |-> st]
    ELSE ExtractImportsNoCache(env, st, filePath)

\* fault injection: a failed read returns the empty set without caching it
ExtractImportsNotCachingFailure(env, st, filePath) ==
    IF filePath \in DOMAIN st.importCache
    THEN [imports |-> st.importCache[filePath], st |-> st]
    ELSE IF filePath \notin DOMAIN env.fileText \/ ~env.fileText[filePath].readable
         THEN [imports |-> <<>>, st |-> st]
         ELSE ExtractImportsNoCache(env, st, filePath)

\* returns the imports and the strategy state the call leaves behind
ExtractImports(env, st, filePath) ==
    IF filePath \in DOMAIN st.importCache
    THEN [imports |-> st.importCache[filePath], st |-> st]
    ELSE LET f == IF filePath \in DOMAIN env.fileText THEN env.fileText[filePath]
                  ELSE [readable |-> FALSE, refs |-> <<>>]
             scan == ScanImports(env, filePath, IF f.readable THEN f.refs ELSE <<>>, 1,
                         [imports |-> <<>>, pathAliases |-> st.pathAliases,
                          baseUrl |-> st.baseUrl])
         IN [imports |-> scan.imports,
             st |-> [st EXCEPT !.importCache = CacheSet(st.importCache, filePath, scan.imports),
                               !.pathAliases = scan.pathAliases, !.baseUrl = scan.baseUrl]]

\* tab.input?.uri?.fsPath
GetTabPath(tab) == tab.path

\* the loop over tabs, after this.importGraph = {}
RECURSIVE BuildLoop(_, _, _, _)
BuildLoop(env, st, tabs, i) ==
    IF i > Len(tabs) THEN st
    ELSE LET filePath == GetTabPath(tabs[i]) IN
         IF filePath = None THEN BuildLoop(env, st, tabs, i + 1)
         ELSE LET e == ExtractImports(env, st, filePath) IN
              BuildLoop(env,
                  [e.st EXCEPT !.importGraph =
                      [p \in DOMAIN e.st.importGraph \cup {filePath} |->
                          IF p = filePath THEN e.imports ELSE e.st.importGraph[p]]],
                  tabs, i + 1)

EmptyMap == [p \in {} |-> <<>>]

\* fault injection: this.importGraph is not reset, the keys of earlier calls stay
BuildImportGraphKeepingOldKeys(env, st, tabs) == BuildLoop(env, st, tabs, 1)

BuildImportGraph(env, st, tabs) ==
    BuildLoop(env, [st EXCEPT !.importGraph = EmptyMap], tabs, 1)

(***************************************************************************)
(* findMatchingTabPath.  tabPaths is the Set of open paths in insertion    *)
(* order; path.sep is "/", so split(path.sep) is the model's segments.     *)
(***************************************************************************)
\* the loop for (let i = 1; i <= minLength; i++), counting equal trailing segments
RECURSIVE MatchLength(_, _, _)
MatchLength(resolvedSegments, tabSegments, i) ==
    IF i > Len(resolvedSegments) \/ i > Len(tabSegments) THEN i - 1
    ELSE IF resolvedSegments[Len(resolvedSegments) - i + 1] = tabSegments[Len(tabSegments) - i + 1]
         THEN MatchLength(resolvedSegments, tabSegments, i + 1)
         ELSE i - 1

\* fault injection: matchLength >= 1 is enough for a match
RECURSIVE BestMatchOnFileName(_, _, _, _, _)
BestMatchOnFileName(resolvedPath, tabPaths, k, bestMatch, bestMatchLength) ==
    IF k > Len(tabPaths) THEN bestMatch
    ELSE LET matchLength == MatchLength(resolvedPath, tabPaths[k], 1) IN
         IF matchLength >= 1 /\ matchLength > bestMatchLength
         THEN BestMatchOnFileName(resolvedPath, tabPaths, k + 1, tabPaths[k], matchLength)
         ELSE BestMatchOnFileName(resolvedPath, tabPaths, k + 1, bestMatch, bestMatchLength)

\* fault injection: matchLength >= bestMatchLength replaces the best match
RECURSIVE BestMatchLastWins(_, _, _, _, _)
BestMatchLastWins(resolvedPath, tabPaths, k, bestMatch, bestMatchLength) ==
    IF k > Len(tabPaths) THEN bestMatch
    ELSE LET matchLength == MatchLength(resolvedPath, tabPaths[k], 1) IN
         IF matchLength >= 2 /\ matchLength >= bestMatchLength
         THEN BestMatchLastWins(resolvedPath, tabPaths, k + 1, tabPaths[k], matchLength)
         ELSE BestMatchLastWins(resolvedPath, tabPaths, k + 1, bestMatch, bestMatchLength)

\* the loop over tabPaths with bestMatch / bestMatchLength
RECURSIVE BestMatch(_, _, _, _, _)
BestMatch(resolvedPath, tabPaths, k, bestMatch, bestMatchLength) ==
    IF k > Len(tabPaths) THEN bestMatch
    ELSE LET matchLength == MatchLength(resolvedPath, tabPaths[k], 1) IN
         IF matchLength >= 2 /\ matchLength > bestMatchLength
         THEN BestMatch(resolvedPath, tabPaths, k + 1, tabPaths[k], matchLength)
         ELSE BestMatch(resolvedPath, tabPaths, k + 1, bestMatch, bestMatchLength)

FindMatchingTabPath(resolvedPath, tabPaths) ==
    IF InSeq(resolvedPath, tabPaths) THEN resolvedPath
    ELSE BestMatch(resolvedPath, tabPaths, 1, None, 0)

(***************************************************************************)
(* calculateImportScores                                                   *)
(***************************************************************************)
\* new Set(tabs.map(getTabPath).filter(p => p !== undefined)), in insertion order
RECURSIVE TabPathSeq(_, _, _)
TabPathSeq(tabs, i, acc) ==
    IF i > Len(tabs) THEN acc
    ELSE TabPathSeq(tabs, i + 1,
             IF GetTabPath(tabs[i]) = None THEN acc ELSE SetAdd(acc, GetTabPath(tabs[i])))

\* every (importer, position) of the graph: one per resolved reference of a file
GraphEdges(graph) == UNION {{<<x, i>> : i \in 1..Len(graph[x])} : x \in DOMAIN graph}

\* fault injection: resolvedToTabPath.set(imported, imported)
ResolvedToTabPathUnmatched(graph, tabPaths) ==
    LET imported == {graph[e[1]][e[2]] : e \in GraphEdges(graph)}
    IN [r \in {q \in imported : FindMatchingTabPath(q, tabPaths) # None} |-> r]

\* resolvedToTabPath: resolved reference -> the open path it is matched to
ResolvedToTabPath(graph, tabPaths) ==
    LET imported == {graph[e[1]][e[2]] : e \in GraphEdges(graph)}
    IN [r \in {q \in imported : FindMatchingTabPath(q, tabPaths) # None} |->
            FindMatchingTabPath(r, tabPaths)]

\* fault injection: a reference that matches no open file counts for its importer
IncomingCountSelfEdges(graph, tabPaths) ==
    [p \in Range(tabPaths) |->
        Cardinality({e \in GraphEdges(graph) :
            \/ FindMatchingTabPath(graph[e[1]][e[2]], tabPaths) = p
            \/ FindMatchingTabPath(graph[e[1]][e[2]], tabPaths) = None /\ e[1] = p})]

\* incomingCount after the counting loop
IncomingCount(graph, tabPaths) ==
    [p \in Range(tabPaths) |->
        Cardinality({e \in GraphEdges(graph) :
            FindMatchingTabPath(graph[e[1]][e[2]], tabPaths) = p})]

\* map.get(key) || 0
GetOr0(map, key) == IF key \in DOMAIN map THEN map[key] ELSE 0

MapPut(map, key, value) ==
    [k \in DOMAIN map \cup {key} |-> IF k = key THEN value ELSE map[k]]

\* (incomingCount.get(matchingTab) || 1) - 1
Decrement(count) == (IF count = 0 THEN 1 ELSE count) - 1

\* Math.max(existingDepth, currentDepth + 1)
\* fault injection: Math.max(existingDepth, currentDepth)
RelaxedDepthNoIncrement(existingDepth, currentDepth) ==
    IF existingDepth >= currentDepth THEN existingDepth ELSE currentDepth

RelaxedDepth(existingDepth, currentDepth) ==
    IF existingDepth >= currentDepth + 1 THEN existingDepth ELSE currentDepth + 1

\* the loop over the imports of the dequeued file; s = [queue, depths, incomingCount, enqueued]
RECURSIVE ProcessImports(_, _, _, _, _)
ProcessImports(imports, i, currentDepth, resolvedToTabPath, s) ==
    IF i > Len(imports) THEN s
    ELSE IF imports[i] \notin DOMAIN resolvedToTabPath
         THEN ProcessImports(imports, i + 1, currentDepth, resolvedToTabPath, s)
         ELSE LET matchingTab == resolvedToTabPath[imports[i]]
                  newCount == Decrement(GetOr0(s.incomingCount, matchingTab))
              IN ProcessImports(imports, i + 1, currentDepth, resolvedToTabPath,
                     [queue |-> IF newCount = 0 THEN Append(s.queue, matchingTab) ELSE s.queue,
                      depths |-> MapPut(s.depths, matchingTab,
                                    RelaxedDepth(GetOr0(s.depths, matchingTab), currentDepth)),
                      incomingCount |-> MapPut(s.incomingCount, matchingTab, newCount),
                      enqueued |-> IF newCount = 0 THEN s.enqueued \cup {matchingTab}
                                   ELSE s.enqueued])

\* while (queue.length > 0)
RECURSIVE Bfs(_, _, _)
Bfs(graph, resolvedToTabPath, s) ==
    IF s.queue = <<>> THEN s
    ELSE LET current == Head(s.queue)
             imports == IF current \in DOMAIN graph THEN graph[current] ELSE <<>>
         IN Bfs(graph, resolvedToTabPath,
                ProcessImports(imports, 1, GetOr0(s.depths, current), resolvedToTabPath,
                    [s EXCEPT !.queue = Tail(s.queue)]))

\* the queue before the traversal: the files nothing imports, in incomingCount order
\* fault injection: only the first file nothing imports is seeded
SeedQueueFirstOnly(tabPaths, incomingCount) ==
    LET all == SelectSeq(tabPaths, LAMBDA p : incomingCount[p] = 0)
    IN IF all = <<>> THEN all ELSE <<Head(all)>>

SeedQueue(tabPaths, incomingCount) == SelectSeq(tabPaths, LAMBDA p : incomingCount[p] = 0)

\* the leftover rule: files without a depth get maxDepth + 1
\* fault injection: leftover files get depth 0
LeftoverDepthZero(depths, maxDepth, filePath) == GetOr0(depths, filePath)

LeftoverDepth(depths, maxDepth, filePath) ==
    IF filePath \in DOMAIN depths THEN depths[filePath] ELSE maxDepth + 1

\* returns the depths map, with what the computation went through:
\* tabPaths, the initial incomingCount, resolvedToTabPath, the set of files that
\* were ever enqueued, the set of files given a depth by the traversal, maxDepth
CalculateImportScores(graph, tabs) ==
    LET tabPaths == TabPathSeq(tabs, 1, <<>>)
        incomingCount == IncomingCount(graph, tabPaths)
        resolvedToTabPath == ResolvedToTabPath(graph, tabPaths)
        queue == SeedQueue(tabPaths, incomingCount)
        done == Bfs(graph, resolvedToTabPath,
                    [queue |-> queue, depths |-> [p \in Range(queue) |-> 0],
                     incomingCount |-> incomingCount, enqueued |-> Range(queue)])
        maxDepth == Max(Range(done.depths) \cup {0})
    IN [depths |-> [p \in DOMAIN done.depths \cup Range(tabPaths) |->
                       LeftoverDepth(done.depths, maxDepth, p)],
        tabPaths |-> tabPaths,
        incomingCount |-> incomingCount,
        resolvedToTabPath |-> resolvedToTabPath,
        enqueued |-> done.enqueued,
        traversed |-> DOMAIN done.depths,
        maxDepth |-> maxDepth]

(***************************************************************************)
(* String.prototype.localeCompare (ICU root collation): the first primary  *)
(* difference decides (punctuation before letters, letters without regard  *)
(* to case); with equal primaries the first case difference decides, lower *)
(* case first.                                                             *)
(***************************************************************************)
Lower == <<"a", "b", "c", "d", "e", "f", "g", "h", "i", "j", "k", "l", "m",
           "n", "o", "p", "q", "r", "s", "t", "u", "v", "w", "x", "y", "z">>
Upper == <<"A", "B", "C", "D", "E", "F", "G", "H", "I", "J", "K", "L", "M",
           "N", "O", "P", "Q", "R", "S", "T", "U", "V", "W", "X", "Y", "Z">>

IndexIn(ch, alphabet) == CHOOSE i \in 1..Len(alphabet) : alphabet[i] = ch

\* the characters of a token
TokenChars(tok) ==
    CASE tok = ".ts" -> <<".", "t", "s">>
      [] tok = ".tsx" -> <<".", "t", "s", "x">>
      [] tok = ".js" -> <<".", "j", "s">>
      [] tok = ".jsx" -> <<".", "j", "s", "x">>
      [] tok = ".." -> <<".", ".">>
      [] tok = "index" -> <<"i", "n", "d", "e", "x">>
      [] tok = "lib" -> <<"l", "i", "b">>
      [] OTHER -> <<tok>>

RECURSIVE SegmentChars(_)
SegmentChars(seg) == IF seg = <<>> THEN <<>> ELSE TokenChars(Head(seg)) \o SegmentChars(Tail(seg))

\* the characters of a string, "/" between its segments
RECURSIVE StringChars(_)
StringChars(s) ==
    IF Len(s) = 1 THEN SegmentChars(s[1])
    ELSE SegmentChars(s[1]) \o <<"/">> \o StringChars(Tail(s))

PrimaryWeight(ch) ==
    IF InSeq(ch, Lower) THEN 100 + IndexIn(ch, Lower)
    ELSE IF InSeq(ch, Upper) THEN 100 + IndexIn(ch, Upper)
    ELSE IF ch = "." THEN 1
    ELSE IF ch = "@" THEN 2
    ELSE IF ch = "*" THEN 3
    ELSE 4

TertiaryWeight(ch) == IF InSeq(ch, Upper) THEN 1 ELSE 0

\* lexicographic comparison of two sequences of numbers: -1, 0 or 1
RECURSIVE LexCompare(_, _)
LexCompare(x, y) ==
    IF x = <<>> /\ y = <<>> THEN 0
    ELSE IF x = <<>> THEN -1
    ELSE IF y = <<>> THEN 1
    ELSE IF Head(x) < Head(y) THEN -1
    ELSE IF Head(x) > Head(y) THEN 1
    ELSE LexCompare(Tail(x), Tail(y))

\* the UTF-16 code unit of a character
CodePoint(ch) ==
    IF InSeq(ch, Lower) THEN 96 + IndexIn(ch, Lower)
    ELSE IF InSeq(ch, Upper) THEN 64 + IndexIn(ch, Upper)
    ELSE IF ch = "." THEN 46
    ELSE IF ch = "@" THEN 64
    ELSE IF ch = "*" THEN 42
    ELSE 47

\* comparison of two strings by their code units, as < and > compare strings: -1, 0 or 1
CodePointCompare(a, b) ==
    LET ca == StringChars(a)
        cb == StringChars(b)
    IN LexCompare([i \in 1..Len(ca) |-> CodePoint(ca[i])],
                  [i \in 1..Len(cb) |-> CodePoint(cb[i])])

\* fault injection: the paths are compared by code units
LocaleCompareByCodePoint(a, b) == CodePointCompare(a, b)

LocaleCompare(a, b) ==
    LET ca == StringChars(a)
        cb == StringChars(b)
        primary == LexCompare([i \in 1..Len(ca) |-> PrimaryWeight(ca[i])],
                              [i \in 1..Len(cb) |-> PrimaryWeight(cb[i])])
    IN IF primary # 0 THEN primary
       ELSE LexCompare([i \in 1..Len(ca) |-> TertiaryWeight(ca[i])],
                       [i \in 1..Len(cb) |-> TertiaryWeight(cb[i])])

(***************************************************************************)
(* sort                                                                    *)
(***************************************************************************)
\* the comparator handed to Array.prototype.sort
\* fault injection: depthB - depthA
CompareDepthDescending(a, b, scores) ==
    LET pathA == GetTabPath(a)
        pathB == GetTabPath(b)
    IN IF pathA = None /\ pathB = None THEN 0
       ELSE IF pathA = None THEN 1
       ELSE IF pathB = None THEN -1
       ELSE IF GetOr0(scores, pathA) # GetOr0(scores, pathB)
            THEN GetOr0(scores, pathB) - GetOr0(scores, pathA)
            ELSE LocaleCompare(pathA, pathB)

Compare(a, b, scores) ==
    LET pathA == GetTabPath(a)
        pathB == GetTabPath(b)
    IN IF pathA = None /\ pathB = None THEN 0
       ELSE IF pathA = None THEN 1
       ELSE IF pathB = None THEN -1
       ELSE IF GetOr0(scores, pathA) # GetOr0(scores, pathB)
            THEN GetOr0(scores, pathA) - GetOr0(scores, pathB)
            ELSE LocaleCompare(pathA, pathB)

\* fault injection: an element goes before the elements that compare equal to it
InsertBeforeEqual(sorted, x, scores) ==
    LET less == {j \in 1..Len(sorted) : Compare(sorted[j], x, scores) < 0}
        k == IF less = {} THEN 0 ELSE Max(less)
    IN SubSeq(sorted, 1, k) \o <<x>> \o SubSeq(sorted, k + 1, Len(sorted))

\* Array.prototype.sort is stable: an element goes after the last one not greater than it
InsertStable(sorted, x, scores) ==
    LET notGreater == {j \in 1..Len(sorted) : Compare(sorted[j], x, scores) <= 0}
        k == IF notGreater = {} THEN 0 ELSE Max(notGreater)
    IN SubSeq(sorted, 1, k) \o <<x>> \o SubSeq(sorted, k + 1, Len(sorted))

RECURSIVE SortLoop(_, _, _, _)
SortLoop(tabs, i, sorted, scores) ==
    IF i > Len(tabs) THEN sorted
    ELSE SortLoop(tabs, i + 1, InsertStable(sorted, tabs[i], scores), scores)

\* [...tabs].sort(comparator)
\* fault injection: tabs without a path are filtered out before sorting
SortedTabsDroppingPathless(tabs, scores) ==
    SortLoop(SelectSeq(tabs, LAMBDA t : GetTabPath(t) # None), 1, <<>>, scores)

SortedTabs(tabs, scores) == SortLoop(tabs, 1, <<>>, scores)

(***************************************************************************)
(* The world the strategy runs in: a workspace /w with sources in /w/s, a  *)
(* second checkout of the same sources in /v/s, and a tsconfig.json that   *)
(* maps "@/*" to "s/*".                                                    *)
(***************************************************************************)
MaxEdges == 3       \* import specifiers in all files together
MaxTabs == 3        \* tabs handed to one sort call

WorkspaceDir == << <<>>, <<"w">> >>
SrcDir == << <<>>, <<"w">>, <<"s">> >>
TwinDir == << <<>>, <<"v">>, <<"s">> >>
FileIn(dir, name) == dir \o << <<name, ".ts">> >>

PathA == FileIn(SrcDir, "a")
PathB == FileIn(SrcDir, "b")
PathC == FileIn(SrcDir, "c")
TwinC == FileIn(TwinDir, "c")

RefA == << <<".">>, <<"a">> >>      \* "./a"
RefB == << <<".">>, <<"b">> >>      \* "./b"
RefC == << <<"@">>, <<"c">> >>      \* "@/c"

TabA == [id |-> "tabA", path |-> PathA]
TabB == [id |-> "tabB", path |-> PathB]
TabC == [id |-> "tabC", path |-> PathC]
TabTwinC == [id |-> "tabTwinC", path |-> TwinC]
TabNoPath == [id |-> "tabNoPath", path |-> None]

\* the sequences without repetition of at most n members of S
InjectiveSeqs(S, n) ==
    UNION {{q \in [1..k -> S] : \A i, j \in 1..k : i # j => q[i] # q[j]} : k \in 0..n}

Disk ==
    {Slash, WorkspaceDir, SrcDir, << <<>>, <<"v">> >>, TwinDir}
        \cup {FileIn(d, n) : d \in {SrcDir, TwinDir}, n \in {"a", "b", "c"}}

TsConfig ==
    [exists |-> TRUE, parses |-> TRUE, baseUrl |-> None,
     paths |-> << [alias |-> << <<"@">>, <<"*">> >>, isArray |-> TRUE,
                   targets |-> << << <<"s">>, <<"*">> >> >>, firstIsString |-> TRUE] >>]

Text(refs) == [readable |-> TRUE, refs |-> refs]

\* a file that is no open document and that fs.readFileSync fails on
Unreadable == [readable |-> FALSE, refs |-> <<>>]

TotalImports(texts) ==
    LET RECURSIVE Sum(_)
        Sum(S) == IF S = {} THEN 0
                  ELSE LET p == CHOOSE q \in S : TRUE IN Len(texts[p].refs) + Sum(S \ {p})
    IN Sum(DOMAIN texts)

\* the contents of the files in `files`, each importing among `refs`
Contents(files, refs) ==
    {t \in [files -> {Text(r) : r \in InjectiveSeqs(refs, Cardinality(refs))}] :
        TotalImports(t) <= MaxEdges}

Env == [fileText |-> fileText, existing |-> existing,
        workspaceRoot |-> workspaceRoot, configs |-> configs]

Strategy == [importGraph |-> importGraph, importCache |-> importCache,
             pathAliases |-> pathAliases, baseUrl |-> baseUrl]

NoCalc == [depths |-> EmptyMap, tabPaths |-> <<>>, incomingCount |-> EmptyMap,
           resolvedToTabPath |-> EmptyMap, enqueued |-> {}, traversed |-> {},
           maxDepth |-> 0]

NoProbe == [called |-> FALSE, fromFile |-> None, importPath |-> None, result |-> None]

NoMatching == [called |-> FALSE, resolvedPath |-> None, tabPaths |-> <<>>, result |-> None]

NoRun == [pc |-> "idle", sortedTabs |-> <<>>, currentIndices |-> <<>>, targetIndex |-> 0,
          delta |-> 0, i |-> 0]

\* no TabOrganizer has been constructed and no editor group is looked at
NoOrganizer ==
    /\ autoOrganize = FALSE
    /\ currentStrategy = "ImportOrderStrategy"
    /\ configuration = [autoOrganize |-> FALSE, sortStrategy |-> "imports"]
    /\ pendingUpdates = <<>>
    /\ tabListeners = 0
    /\ configListeners = 0
    /\ triggered = 0

NoGroup ==
    /\ groupTabs = <<>>
    /\ activeTab = None
    /\ run = NoRun
    /\ suspended = <<>>

\* new ImportOrderStrategy()
FreshStrategy ==
    /\ importGraph = EmptyMap
    /\ importCache = EmptyMap
    /\ pathAliases = NullAliases
    /\ baseUrl = None
    /\ op = "init"
    /\ lastTabs = <<>>
    /\ lastSorted = <<>>
    /\ lastCalc = NoCalc
    /\ repeated = FALSE

(***************************************************************************)
(* Operations of the strategy                                              *)
(***************************************************************************)
\* sort(tabs)
Sort(tabs) ==
    \E st \in {BuildImportGraph(Env, Strategy, tabs)} :
      \E calc \in {CalculateImportScores(st.importGraph, tabs)} :
        /\ importGraph' = st.importGraph
        /\ importCache' = st.importCache
        /\ pathAliases' = st.pathAliases
        /\ baseUrl' = st.baseUrl
        /\ lastTabs' = tabs
        /\ lastCalc' = calc
        /\ lastSorted' = SortedTabs(tabs, calc.depths)
        /\ op' = "sort"
        /\ repeated' = (op = "sort" /\ tabs = lastTabs)
        /\ UNCHANGED <<envVars, callVars, organizerVars, groupVars>>

\* clearCache()
ClearCache ==
    /\ importCache' = EmptyMap
    /\ importGraph' = EmptyMap
    /\ pathAliases' = NullAliases
    /\ baseUrl' = None
    /\ op' = "clearCache"
    /\ repeated' = FALSE
    /\ UNCHANGED <<envVars, sortVars, callVars, organizerVars, groupVars>>

\* the environment: the text of a file changes
EditFile(filePath, text) ==
    /\ fileText[filePath] # text
    /\ fileText' = [fileText EXCEPT ![filePath] = text]
    /\ TotalImports(fileText') <= MaxEdges
    /\ op' = "edit"
    /\ repeated' = FALSE
    /\ UNCHANGED <<existing, workspaceRoot, configs, strategyVars, sortVars, callVars,
                   organizerVars, groupVars>>

\* the environment: the alias config candidates change on disk
ConfigsChanged(cfgs) ==
    /\ configs # cfgs
    /\ configs' = cfgs
    /\ op' = "configsChanged"
    /\ repeated' = FALSE
    /\ UNCHANGED <<fileText, existing, workspaceRoot, strategyVars, sortVars, callVars,
                   organizerVars, groupVars>>

\* the environment: a workspace folder is opened or closed
WorkspaceChanged(root) ==
    /\ workspaceRoot # root
    /\ workspaceRoot' = root
    /\ op' = "workspaceChanged"
    /\ repeated' = FALSE
    /\ UNCHANGED <<fileText, existing, configs, strategyVars, sortVars, callVars,
                   organizerVars, groupVars>>

(***************************************************************************)
(* SpecSort: one sort call of a fresh strategy, over every content of the  *)
(* files a.ts, b.ts, c.ts (the second checkout's c.ts has c.ts's text) and *)
(* every sequence of at most MaxTabs of the five tabs.                     *)
(***************************************************************************)
SortFiles == {PathA, PathB, PathC}
SortRefs == {RefA, RefB, RefC}
SortTabUniverse == {TabA, TabB, TabC, TabTwinC, TabNoPath}

InitSort ==
    /\ \E t \in Contents(SortFiles, SortRefs) :
          fileText = [p \in SortFiles \cup {TwinC} |-> IF p = TwinC THEN t[PathC] ELSE t[p]]
    /\ existing = Disk
    /\ workspaceRoot = WorkspaceDir
    /\ configs = <<TsConfig>>
    /\ probe = NoProbe
    /\ matching = NoMatching
    /\ FreshStrategy
    /\ NoOrganizer
    /\ NoGroup

FirstSort == \E tabs \in InjectiveSeqs(SortTabUniverse, MaxTabs) : op = "init" /\ Sort(tabs)

NextSort == FirstSort

SpecSort == InitSort /\ [][NextSort]_vars

(***************************************************************************)
(* Spec: the life of one strategy instance: sort calls on the tabs of      *)
(* a.ts, b.ts and a tab without a path, edits of the two files, clearCache.*)
(***************************************************************************)
LifeFiles == {PathA, PathB}
LifeRefs == {RefA, RefB}
LifeTabUniverse == {TabA, TabB, TabNoPath}

Init ==
    /\ fileText \in Contents(LifeFiles, LifeRefs)
    /\ existing = Disk
    /\ workspaceRoot = WorkspaceDir
    /\ configs = <<TsConfig>>
    /\ probe = NoProbe
    /\ matching = NoMatching
    /\ FreshStrategy
    /\ NoOrganizer
    /\ NoGroup

SortCall == \E tabs \in InjectiveSeqs(LifeTabUniverse, MaxTabs) : Sort(tabs)

Edit ==
    \E p \in LifeFiles, r \in InjectiveSeqs(LifeRefs, Cardinality(LifeRefs)) : EditFile(p, Text(r))

Next == SortCall \/ Edit \/ ClearCache

Spec == Init /\ [][Next]_vars

(***************************************************************************)
(* SpecResolve: one resolveImportPath call for a relative reference from   *)
(* /w/s/index.ts, over every answer of the existence probe for the         *)
(* candidate and the eight paths resolveWithExtensions derives from it.    *)
(***************************************************************************)
IndexFile == SrcDir \o << <<"index", ".ts">> >>
RefU == << <<".">>, <<"u">> >>                  \* "./u"
RefLib == << <<".">>, <<"lib">> >>              \* "./lib"
RefUpLib == << <<"..">>, <<"s">>, <<"lib">> >>  \* "../s/lib"
ProbeRefs == {RefU, RefLib, RefUpLib}

\* the candidate a reference of ProbeRefs stands for, written out
CandidateOf(ref) == SrcDir \o << IF ref = RefU THEN <<"u">> ELSE <<"lib">> >>

\* C.ext and C/index.ext, written out
WithExt(c, ext) == Front(c) \o << Last(c) \o <<ext>> >>
IndexOf(c, ext) == c \o << <<"index", ext>> >>

ProbePaths(c) ==
    {c} \cup {WithExt(c, e) : e \in {".ts", ".tsx", ".js", ".jsx"}}
        \cup {IndexOf(c, e) : e \in {".ts", ".tsx", ".js", ".jsx"}}

InitResolve ==
    /\ \E ref \in ProbeRefs :
          /\ probe = [called |-> FALSE, fromFile |-> IndexFile, importPath |-> ref,
                      result |-> None]
          /\ existing \in SUBSET ProbePaths(CandidateOf(ref))
    /\ fileText = EmptyMap
    /\ workspaceRoot = WorkspaceDir
    /\ configs = <<TsConfig>>
    /\ matching = NoMatching
    /\ FreshStrategy
    /\ NoOrganizer
    /\ NoGroup

\* resolveImportPath(fromFile, importPath)
ResolveCall ==
    /\ ~probe.called
    /\ \E r \in {ResolveImportPath(Env, pathAliases, baseUrl, probe.fromFile, probe.importPath)} :
          /\ probe' = [probe EXCEPT !.called = TRUE, !.result = r.result]
          /\ pathAliases' = r.pathAliases
          /\ baseUrl' = r.baseUrl
    /\ op' = "resolve"
    /\ UNCHANGED <<envVars, importGraph, importCache, sortVars, repeated, matching,
                   organizerVars, groupVars>>

NextResolve == ResolveCall

SpecResolve == InitResolve /\ [][NextResolve]_vars

(***************************************************************************)
(* SpecAlias: one resolveImportPath call for a non-relative reference from *)
(* /w/s/a.ts, over every tsconfig.json with at most MaxAliases of four     *)
(* "paths" entries and a baseUrl that is absent, "s" or "/v".              *)
(***************************************************************************)
MaxAliases == 2     \* entries of compilerOptions.paths in one config file

RefAt == << <<"@">> >>                  \* "@"
RefAtSlash == << <<"@">>, <<>> >>       \* "@/"
RefAtC == << <<"@", "c">> >>            \* "@c"
RefPkg == << <<"lib">> >>               \* "lib"
AliasRefs == {RefC, RefAt, RefAtSlash, RefAtC, RefPkg}

\* an entry "alias": ["target"] of compilerOptions.paths
PathsEntry(alias, target) ==
    [alias |-> alias, isArray |-> TRUE, targets |-> <<target>>, firstIsString |-> TRUE]

EntryAtStar == PathsEntry(<< <<"@">>, <<"*">> >>, << <<"s">>, <<"*">> >>)   \* "@/*": ["s/*"]
EntryAtSlash == PathsEntry(<< <<"@">>, <<>> >>, << <<"s">>, <<>> >>)        \* "@/": ["s/"]
EntryAt == PathsEntry(<< <<"@">> >>, << <<"v">>, <<"s">> >>)                \* "@": ["v/s"]
EntryAtC == PathsEntry(<< <<"@">>, <<"c">> >>, << <<"s">>, <<"b">> >>)      \* "@/c": ["s/b"]
AliasEntries == {EntryAtStar, EntryAtSlash, EntryAt, EntryAtC}

BaseUrls == {None, << <<"s">> >>, << <<>>, <<"v">> >>}

\* existsSync also reports a directory named with a trailing "/"
DiskDirs == {WorkspaceDir, SrcDir, << <<>>, <<"v">> >>, TwinDir}
DiskWithSlash == Disk \cup {d \o << <<>> >> : d \in DiskDirs}

InitAlias ==
    /\ \E ref \in AliasRefs :
          probe = [called |-> FALSE, fromFile |-> PathA, importPath |-> ref, result |-> None]
    /\ \E paths \in InjectiveSeqs(AliasEntries, MaxAliases), b \in BaseUrls :
          configs = << [exists |-> TRUE, parses |-> TRUE, baseUrl |-> b, paths |-> paths] >>
    /\ existing = DiskWithSlash
    /\ fileText = EmptyMap
    /\ workspaceRoot = WorkspaceDir
    /\ matching = NoMatching
    /\ FreshStrategy
    /\ NoOrganizer
    /\ NoGroup

NextAlias == ResolveCall

SpecAlias == InitAlias /\ [][NextAlias]_vars

(***************************************************************************)
(* SpecLoad: one resolveImportPath call for a non-relative reference, the  *)
(* first need of the alias table, over every list of at most MaxConfigs    *)
(* of seven candidate config files and with or without a workspace folder. *)
(***************************************************************************)
MaxConfigs == 2     \* entries of tabOrganizer.aliasConfigFiles

\* "#": [null]: targets[0].replace raises a TypeError
EntryNullTarget ==
    [alias |-> << <<"#">> >>, isArray |-> TRUE, targets |-> <<None>>, firstIsString |-> FALSE]
EntryTilde == PathsEntry(<< <<"~">>, <<"*">> >>, << <<"v">>, <<"s">>, <<"*">> >>)   \* "~/*": ["v/s/*"]

ConfigFile(base, paths) == [exists |-> TRUE, parses |-> TRUE, baseUrl |-> base, paths |-> paths]

ConfigMissing == [exists |-> FALSE, parses |-> FALSE, baseUrl |-> None, paths |-> <<>>]
ConfigMalformed == [exists |-> TRUE, parses |-> FALSE, baseUrl |-> None, paths |-> <<>>]
ConfigNoPaths == ConfigFile(<< <<"s">> >>, <<>>)
ConfigAt == ConfigFile(None, <<EntryAtStar>>)
ConfigTilde == ConfigFile(<< <<>>, <<"v">> >>, <<EntryTilde, EntryAtC>>)
ConfigThrowsLate == ConfigFile(<< <<"s">> >>, <<EntryAt, EntryNullTarget>>)
ConfigThrowsEarly == ConfigFile(<< <<"s">> >>, <<EntryNullTarget, EntryAt>>)

ConfigCandidates ==
    {ConfigMissing, ConfigMalformed, ConfigNoPaths, ConfigAt, ConfigTilde,
     ConfigThrowsLate, ConfigThrowsEarly}

InitLoad ==
    /\ \E ref \in {RefC, RefPkg} :
          probe = [called |-> FALSE, fromFile |-> PathA, importPath |-> ref, result |-> None]
    /\ configs \in InjectiveSeqs(ConfigCandidates, MaxConfigs)
    /\ workspaceRoot \in {WorkspaceDir, None}
    /\ existing = Disk
    /\ fileText = EmptyMap
    /\ matching = NoMatching
    /\ FreshStrategy
    /\ NoOrganizer
    /\ NoGroup

NextLoad == ResolveCall

SpecLoad == InitLoad /\ [][NextLoad]_vars

(***************************************************************************)
(* SpecReload: the life of one strategy instance while the alias           *)
(* environment changes: sort calls on the tabs of a.ts and b.ts, each      *)
(* empty or importing "@/c", one config candidate that is missing, without *)
(* paths, or maps "@/*" into /w/s or into /v/s, a workspace folder that is *)
(* open or not, clearCache.                                                *)
(***************************************************************************)
ConfigAtTwin == ConfigFile(<< <<>>, <<"v">> >>, <<EntryAtStar>>)
ReloadConfigs == {ConfigMissing, ConfigNoPaths, ConfigAt, ConfigAtTwin}
ReloadRoots == {None, WorkspaceDir}

InitReload ==
    /\ fileText \in [LifeFiles -> {Text(<<>>), Text(<<RefC>>)}]
    /\ existing = Disk
    /\ workspaceRoot \in ReloadRoots
    /\ \E c \in ReloadConfigs : configs = <<c>>
    /\ probe = NoProbe
    /\ matching = NoMatching
    /\ FreshStrategy
    /\ NoOrganizer
    /\ NoGroup

ReloadSort == \E tabs \in InjectiveSeqs({TabA, TabB}, MaxTabs) : Sort(tabs)

AliasEnvironmentChange ==
    \/ \E c \in ReloadConfigs : ConfigsChanged(<<c>>)
    \/ \E root \in ReloadRoots : WorkspaceChanged(root)

NextReload == ReloadSort \/ AliasEnvironmentChange \/ ClearCache

SpecReload == InitReload /\ [][NextReload]_vars

(***************************************************************************)
(* SpecUnreadable: the life of one strategy instance on the tabs of a.ts   *)
(* and b.ts, each of which cannot be read or imports one of the two;       *)
(* a file becomes readable, unreadable or changes its import; clearCache.  *)
(***************************************************************************)
UnreadableTexts == {Unreadable, Text(<<RefA>>), Text(<<RefB>>)}

InitUnreadable ==
    /\ fileText \in [LifeFiles -> UnreadableTexts]
    /\ existing = Disk
    /\ workspaceRoot = WorkspaceDir
    /\ configs = <<TsConfig>>
    /\ probe = NoProbe
    /\ matching = NoMatching
    /\ FreshStrategy
    /\ NoOrganizer
    /\ NoGroup

UnreadableSort == \E tabs \in InjectiveSeqs({TabA, TabB}, MaxTabs) : Sort(tabs)

ReadabilityChange == \E p \in LifeFiles, t \in UnreadableTexts : EditFile(p, t)

NextUnreadable == UnreadableSort \/ ReadabilityChange \/ ClearCache

SpecUnreadable == InitUnreadable /\ [][NextUnreadable]_vars

(***************************************************************************)
(* SpecResort: sort calls of one strategy on the same tabs in another      *)
(* order, its own output included.  The tabs are those of /w/s/a.ts (a     *)
(* text editor and a custom editor), of c.ts in the checkouts /v/s and     *)
(* /u/s, and two tabs without a path; /w/s/c.ts exists and is not open, so *)
(* that "@/c" is matched by its suffix to both open c.ts.                  *)
(***************************************************************************)
ThirdDir == << <<>>, <<"u">>, <<"s">> >>
ThirdC == FileIn(ThirdDir, "c")

TabACustom == [id |-> "tabACustom", path |-> PathA]
TabThirdC == [id |-> "tabThirdC", path |-> ThirdC]
TabNoPath2 == [id |-> "tabNoPath2", path |-> None]

ResortFiles == {PathA, TwinC, ThirdC}
ResortTexts == {Text(<<>>), Text(<<RefA>>), Text(<<RefC>>)}
ResortTabUniverse == {TabA, TabACustom, TabTwinC, TabThirdC, TabNoPath, TabNoPath2}

InitResort ==
    /\ fileText \in [ResortFiles -> ResortTexts]
    /\ existing = Disk \cup {<< <<>>, <<"u">> >>, ThirdDir, FileIn(ThirdDir, "a"), ThirdC}
    /\ workspaceRoot = WorkspaceDir
    /\ configs = <<TsConfig>>
    /\ probe = NoProbe
    /\ matching = NoMatching
    /\ FreshStrategy
    /\ NoOrganizer
    /\ NoGroup

\* the arguments of the sort calls: any tabs for the first call, then the tabs of
\* the last call in any order, that of its output included
ResortArguments ==
    IF op = "init" THEN InjectiveSeqs(ResortTabUniverse, MaxTabs)
    ELSE {q \in InjectiveSeqs(Range(lastTabs), Len(lastTabs)) : Len(q) = Len(lastTabs)}

SortAgain == \E tabs \in ResortArguments : Sort(tabs)

NextResort == SortAgain

SpecResort == InitResort /\ [][NextResort]_vars

(***************************************************************************)
(* SpecCase: one sort call on tabs of files whose names differ in letter   *)
(* case.                                                                   *)
(***************************************************************************)
UpperB == FileIn(SrcDir, "B")
UpperC == FileIn(SrcDir, "C")
TabUpperB == [id |-> "tabUpperB", path |-> UpperB]
TabUpperC == [id |-> "tabUpperC", path |-> UpperC]
CaseFiles == {PathA, PathB, UpperB, UpperC}
CaseTexts == {Text(<<>>), Text(<<RefA>>)}
CaseTabUniverse == {TabA, TabB, TabUpperB, TabUpperC}

InitCase ==
    /\ fileText \in [CaseFiles -> CaseTexts]
    /\ existing = Disk \cup {UpperB, UpperC}
    /\ workspaceRoot = WorkspaceDir
    /\ configs = <<TsConfig>>
    /\ probe = NoProbe
    /\ matching = NoMatching
    /\ FreshStrategy
    /\ NoOrganizer
    /\ NoGroup

SortCase == \E tabs \in InjectiveSeqs(CaseTabUniverse, MaxTabs) : op = "init" /\ Sort(tabs)

NextCase == SortCase

SpecCase == InitCase /\ [][NextCase]_vars

(***************************************************************************)
(* SpecMatch: one findMatchingTabPath call, over every resolved path and   *)
(* every set of at most MaxTabs open paths among eleven paths of a.ts and  *)
(* b.ts in directories that share none, one or two trailing directories.   *)
(***************************************************************************)
Under(dirs, name) == << <<>> >> \o [i \in 1..Len(dirs) |-> <<dirs[i]>>] \o << <<name, ".ts">> >>

MatchPaths ==
    {Under(<<>>, "a"), Under(<<"s">>, "a"),
     Under(<<"w", "s">>, "a"), Under(<<"v", "s">>, "a"), Under(<<"w", "t">>, "a"),
     Under(<<"w", "s">>, "b"), Under(<<"v", "s">>, "b"),
     Under(<<"w", "x", "s">>, "a"), Under(<<"v", "y", "s">>, "a"), Under(<<"v", "x", "s">>, "a"),
     Under(<<"u", "x", "s">>, "a")}

InitMatch ==
    /\ \E r \in MatchPaths, open \in InjectiveSeqs(MatchPaths, MaxTabs) :
          matching = [called |-> FALSE, resolvedPath |-> r, tabPaths |-> open, result |-> None]
    /\ probe = NoProbe
    /\ fileText = EmptyMap
    /\ existing = {}
    /\ workspaceRoot = WorkspaceDir
    /\ configs = <<>>
    /\ FreshStrategy
    /\ NoOrganizer
    /\ NoGroup

\* findMatchingTabPath(resolvedPath, tabPaths)
MatchCall ==
    /\ ~matching.called
    /\ matching' = [matching EXCEPT !.called = TRUE,
                       !.result = FindMatchingTabPath(matching.resolvedPath, matching.tabPaths)]
    /\ op' = "match"
    /\ UNCHANGED <<envVars, strategyVars, sortVars, repeated, probe, organizerVars, groupVars>>

NextMatch == MatchCall

SpecMatch == InitMatch /\ [][NextMatch]_vars

(***************************************************************************)
(* TabOrganizer (tabOrganizer.ts): configuration, listeners, the toggle.   *)
(* A listener is never disposed before dispose(), so the listeners are     *)
(* counted; an event is delivered to the listeners registered when it      *)
(* fires.                                                                  *)
(***************************************************************************)
MaxListeners == 8   \* registered listeners of one kind
MaxPending == 2     \* config.update calls in flight
MaxRuns == 2        \* organize runs in flight

SortStrategySettings == {"fileSystem", "imports", "alphabetical"}

\* loadStrategy(), by the class of the strategy it constructs
LoadStrategy(cfg) ==
    CASE cfg.sortStrategy = "imports" -> "ImportOrderStrategy"
      [] cfg.sortStrategy = "alphabetical" -> "AlphabeticalStrategy"
      [] OTHER -> "FileSystemStrategy"

\* new TabOrganizer(context): loadStrategy, loadConfiguration, setupEventListeners
Constructed ==
    /\ currentStrategy = LoadStrategy(configuration)
    /\ autoOrganize = configuration.autoOrganize
    /\ tabListeners = (IF autoOrganize THEN 1 ELSE 0)
    /\ configListeners = 1
    /\ pendingUpdates = <<>>
    /\ triggered = 0

\* onDidChangeConfiguration fires with the settings cfg, affecting one key: each
\* registered configListener reloads what is affected and, for autoOrganize,
\* runs setupEventListeners again
Dispatch(affected, cfg) ==
    /\ currentStrategy' = IF affected = "sortStrategy" THEN LoadStrategy(cfg) ELSE currentStrategy
    /\ autoOrganize' = IF affected = "autoOrganize" THEN cfg.autoOrganize ELSE autoOrganize
    /\ tabListeners' = IF affected = "autoOrganize" /\ cfg.autoOrganize
                       THEN tabListeners + configListeners ELSE tabListeners
    /\ configListeners' = IF affected = "autoOrganize" THEN 2 * configListeners
                          ELSE configListeners
    /\ tabListeners' <= MaxListeners
    /\ configListeners' <= MaxListeners

\* toggleAutoOrganize(): the field flips, config.update is started and not awaited
ToggleAutoOrganize ==
    /\ Len(pendingUpdates) < MaxPending
    /\ autoOrganize' = ~autoOrganize
    /\ pendingUpdates' = Append(pendingUpdates, [key |-> "autoOrganize", value |-> ~autoOrganize])
    /\ triggered' = 0
    /\ op' = "toggleAutoOrganize"
    /\ UNCHANGED <<envVars, strategyVars, sortVars, repeated, callVars, groupVars,
                   currentStrategy, configuration, tabListeners, configListeners>>

\* a config.update completes: the setting is written, and the change event fires
\* when the value is new
UpdateCompleted ==
    /\ pendingUpdates # <<>>
    /\ LET u == Head(pendingUpdates) IN
          /\ configuration' = [configuration EXCEPT ![u.key] = u.value]
          /\ IF configuration' = configuration
             THEN UNCHANGED <<currentStrategy, autoOrganize, tabListeners, configListeners>>
             ELSE Dispatch(u.key, configuration')
    /\ pendingUpdates' = Tail(pendingUpdates)
    /\ triggered' = 0
    /\ op' = "updateCompleted"
    /\ UNCHANGED <<envVars, strategyVars, sortVars, repeated, callVars, groupVars>>

\* the environment: the user edits a tabOrganizer setting
SettingEdited(key, value) ==
    /\ configuration[key] # value
    /\ configuration' = [configuration EXCEPT ![key] = value]
    /\ Dispatch(key, configuration')
    /\ triggered' = 0
    /\ op' = "settingEdited"
    /\ UNCHANGED <<envVars, strategyVars, sortVars, repeated, callVars, groupVars, pendingUpdates>>

\* the environment: onDidChangeTabs fires; every registered tab listener calls organize()
TabChange ==
    /\ triggered' = tabListeners
    /\ op' = "tabChange"
    /\ UNCHANGED <<envVars, strategyVars, sortVars, repeated, callVars, groupVars, autoOrganize,
                   currentStrategy, configuration, pendingUpdates, tabListeners, configListeners>>

(***************************************************************************)
(* SpecAuto: the life of one TabOrganizer: toggles, setting edits, the     *)
(* completion of configuration updates, tab changes.                       *)
(***************************************************************************)
InitAuto ==
    /\ configuration \in [autoOrganize : BOOLEAN, sortStrategy : SortStrategySettings]
    /\ Constructed
    /\ fileText = EmptyMap
    /\ existing = {}
    /\ workspaceRoot = WorkspaceDir
    /\ configs = <<>>
    /\ probe = NoProbe
    /\ matching = NoMatching
    /\ FreshStrategy
    /\ NoGroup

EditSetting ==
    \/ \E v \in BOOLEAN : SettingEdited("autoOrganize", v)
    \/ \E v \in SortStrategySettings : SettingEdited("sortStrategy", v)

NextAuto == ToggleAutoOrganize \/ UpdateCompleted \/ EditSetting \/ TabChange

SpecAuto == InitAuto /\ [][NextAuto]_vars

(***************************************************************************)
(* TabOrganizer.organize on one editor group.  A step runs from one await  *)
(* to the next: the start (sort, the index map, the loop up to the first   *)
(* showTextDocument call), the activation, and each move command with its  *)
(* delay; the step of the last move of a tab goes on through the index     *)
(* update and the loop up to the next showTextDocument call or the end.    *)
(* Indices are the code's, from 0.                                         *)
(***************************************************************************)
Abs(x) == IF x < 0 THEN -x ELSE x

\* tabs.forEach((tab, index) => currentIndices.set(tab, index))
InitialIndices(tabs) ==
    [t \in Range(tabs) |-> (CHOOSE k \in 1..Len(tabs) : tabs[k] = t) - 1]

\* the iterations that continue: no index, already in place, or an input without a uri
Skipped(r) ==
    LET tab == r.sortedTabs[r.targetIndex + 1] IN
    \/ tab \notin DOMAIN r.currentIndices
    \/ r.currentIndices[tab] = r.targetIndex
    \/ GetTabPath(tab) = None

\* the loop for (targetIndex = ...; targetIndex >= 0; targetIndex--) up to the next await
RECURSIVE Advance(_)
Advance(r) ==
    IF r.targetIndex < 0 THEN [r EXCEPT !.pc = "done"]
    ELSE IF Skipped(r) THEN Advance([r EXCEPT !.targetIndex = @ - 1])
    ELSE [r EXCEPT !.pc = "show"]

\* fault injection: the direction of the move is the opposite one
CommandReversed(delta) ==
    IF delta > 0 THEN "workbench.action.moveEditorRightInGroup"
    ELSE "workbench.action.moveEditorLeftInGroup"

Command(delta) ==
    IF delta > 0 THEN "workbench.action.moveEditorLeftInGroup"
    ELSE "workbench.action.moveEditorRightInGroup"

\* the loop over currentIndices after the moves, and currentIndices.set(tab, targetIndex)
UpdateIndices(currentIndices, tab, currentIndex, targetIndex) ==
    LET delta == currentIndex - targetIndex IN
    [t \in DOMAIN currentIndices |->
        IF t = tab THEN targetIndex
        ELSE IF delta > 0 /\ currentIndices[t] >= targetIndex /\ currentIndices[t] < currentIndex
             THEN currentIndices[t] + 1
        ELSE IF delta < 0 /\ currentIndices[t] > currentIndex /\ currentIndices[t] <= targetIndex
             THEN currentIndices[t] - 1
        ELSE currentIndices[t]]

\* the environment: a move command shifts the active tab of the group by one
\* position, staying at the edge of the group
MoveActive(tabs, active, command) ==
    IF ~InSeq(active, tabs) THEN tabs
    ELSE LET from == CHOOSE k \in 1..Len(tabs) : tabs[k] = active
             to == IF command = "workbench.action.moveEditorLeftInGroup"
                   THEN (IF from = 1 THEN 1 ELSE from - 1)
                   ELSE (IF from = Len(tabs) THEN from ELSE from + 1)
         IN [k \in 1..Len(tabs) |->
                IF k = to THEN tabs[from] ELSE IF k = from THEN tabs[to] ELSE tabs[k]]

\* the run is suspended at an await of its loop
InFlight(r) == r.pc \in {"show", "move"}

\* the number of tab listeners an onDidChangeTabs event reaches, 0 without an event
Listeners(changed) == IF changed THEN tabListeners ELSE 0

\* organize() up to its first await, with the Import Order strategy; a run that is
\* in flight stays suspended at its await
OrganizeStart ==
    /\ currentStrategy = "ImportOrderStrategy"
    /\ LET tabs == groupTabs IN
       IF Len(tabs) = 0
       THEN /\ run' = IF InFlight(run) THEN run ELSE [run EXCEPT !.pc = "done"]
            /\ UNCHANGED <<strategyVars, sortVars, suspended>>
       ELSE \E st \in {BuildImportGraph(Env, Strategy, tabs)} :
              \E calc \in {CalculateImportScores(st.importGraph, tabs)} :
                /\ importGraph' = st.importGraph
                /\ importCache' = st.importCache
                /\ pathAliases' = st.pathAliases
                /\ baseUrl' = st.baseUrl
                /\ lastTabs' = tabs
                /\ lastCalc' = calc
                /\ lastSorted' = SortedTabs(tabs, calc.depths)
                /\ \E started \in {Advance([pc |-> "loop", sortedTabs |-> lastSorted',
                                             currentIndices |-> InitialIndices(tabs),
                                             targetIndex |-> Len(lastSorted') - 1,
                                             delta |-> 0, i |-> 0])} :
                      IF ~InFlight(run)
                      THEN run' = started /\ suspended' = suspended
                      ELSE IF ~InFlight(started)
                      THEN run' = run /\ suspended' = suspended
                      ELSE /\ Len(suspended) + 2 <= MaxRuns
                           /\ run' = started
                           /\ suspended' = Append(suspended, run)
    /\ op' = "organize"
    /\ repeated' = FALSE
    /\ UNCHANGED <<envVars, callVars, autoOrganize, currentStrategy, configuration,
                   pendingUpdates, tabListeners, configListeners, groupTabs, activeTab>>

\* the command tabOrganizer.organize
OrganizeCommand == OrganizeStart /\ UNCHANGED triggered

\* a tab listener of the last tab-change event makes its call
OrganizeOnTabChange ==
    /\ triggered > 0
    /\ OrganizeStart
    /\ triggered' = triggered - 1

\* organize() is called, by the command or by a tab listener of the last tab-change
\* event
OrganizeInvoked ==
    \E byListener \in BOOLEAN :
        /\ byListener => triggered > 0
        /\ OrganizeStart
        /\ triggered' = IF byListener THEN triggered - 1 ELSE triggered

\* showTextDocument resolves: the tab is active; delta and the command are computed
\* and the first move command is issued; the tab-change event of an activation has
\* reached the listeners before
ShowTextDocument ==
    /\ run.pc = "show"
    /\ triggered = 0
    /\ LET tab == run.sortedTabs[run.targetIndex + 1] IN
          /\ activeTab' = tab
          /\ run' = [run EXCEPT !.pc = "move", !.i = 0,
                                !.delta = run.currentIndices[tab] - run.targetIndex]
    /\ triggered' = Listeners(activeTab' # activeTab)
    /\ op' = "showTextDocument"
    /\ repeated' = FALSE
    /\ UNCHANGED <<envVars, strategyVars, sortVars, callVars, autoOrganize, currentStrategy,
                   configuration, pendingUpdates, tabListeners, configListeners,
                   groupTabs, suspended>>

\* one executeCommand(command) and its delay; after the last one of this tab the
\* indices are updated and the loop goes on
MoveEditor ==
    /\ run.pc = "move"
    /\ triggered = 0
    /\ groupTabs' = MoveActive(groupTabs, activeTab, Command(run.delta))
    /\ LET tab == run.sortedTabs[run.targetIndex + 1] IN
          run' = IF run.i + 1 < Abs(run.delta) THEN [run EXCEPT !.i = @ + 1]
                 ELSE Advance([run EXCEPT
                          !.pc = "loop", !.i = @ + 1,
                          !.currentIndices = UpdateIndices(run.currentIndices, tab,
                                                 run.currentIndices[tab], run.targetIndex),
                          !.targetIndex = @ - 1])
    /\ triggered' = Listeners(groupTabs' # groupTabs)
    /\ op' = Command(run.delta)
    /\ repeated' = FALSE
    /\ UNCHANGED <<envVars, strategyVars, sortVars, callVars, autoOrganize, currentStrategy,
                   configuration, pendingUpdates, tabListeners, configListeners,
                   activeTab, suspended>>

\* the event loop turns to the run that has been suspended longest; the run it
\* leaves, if in flight, waits behind the others
Resume ==
    /\ suspended # <<>>
    /\ triggered = 0
    /\ run' = Head(suspended)
    /\ suspended' = Tail(suspended) \o (IF InFlight(run) THEN <<run>> ELSE <<>>)
    /\ op' = "resume"
    /\ repeated' = FALSE
    /\ UNCHANGED <<envVars, strategyVars, sortVars, callVars, organizerVars,
                   groupTabs, activeTab>>

(***************************************************************************)
(* SpecOrganize: one organize run, nothing else happening, on a group of   *)
(* at most MaxTabs tabs among a.ts, b.ts, c.ts and a tab whose input has   *)
(* no uri, over the contents in which a file has at most one reference.    *)
(***************************************************************************)
OrganizeTabUniverse == {TabA, TabB, TabC, TabNoPath}

InitOrganize ==
    /\ fileText \in [SortFiles -> {Text(r) : r \in InjectiveSeqs(SortRefs, 1)}]
    /\ existing = Disk
    /\ workspaceRoot = WorkspaceDir
    /\ configs = <<TsConfig>>
    /\ probe = NoProbe
    /\ matching = NoMatching
    /\ FreshStrategy
    /\ configuration = [autoOrganize |-> FALSE, sortStrategy |-> "imports"]
    /\ Constructed
    /\ groupTabs \in InjectiveSeqs(OrganizeTabUniverse, MaxTabs)
    /\ activeTab \in (IF groupTabs = <<>> THEN {None} ELSE Range(groupTabs))
    /\ run = NoRun
    /\ suspended = <<>>

\* the command is run once
OrganizeOnce == run.pc = "idle" /\ OrganizeCommand

NextOrganize == OrganizeOnce \/ ShowTextDocument \/ MoveEditor

SpecOrganize == InitOrganize /\ [][NextOrganize]_vars

(***************************************************************************)
(* SpecQuiesce: auto-organize is enabled with the Import Order strategy;   *)
(* one tab change comes from outside, every later one from the             *)
(* showTextDocument calls and the move commands of the organize runs.      *)
(***************************************************************************)
QuiesceFiles == {PathA, TwinC, ThirdC}
QuiesceTexts == {Text(<<>>), Text(<<RefA>>), Text(<<RefC>>)}
QuiesceTabUniverse == {TabA, TabTwinC, TabThirdC, TabNoPath}

InitQuiesce ==
    /\ fileText \in [QuiesceFiles -> QuiesceTexts]
    /\ existing = Disk \cup {<< <<>>, <<"u">> >>, ThirdDir, FileIn(ThirdDir, "a"), ThirdC}
    /\ workspaceRoot = WorkspaceDir
    /\ configs = <<TsConfig>>
    /\ probe = NoProbe
    /\ matching = NoMatching
    /\ FreshStrategy
    /\ configuration = [autoOrganize |-> TRUE, sortStrategy |-> "imports"]
    /\ Constructed
    /\ groupTabs \in InjectiveSeqs(QuiesceTabUniverse, MaxTabs)
    /\ activeTab \in (IF groupTabs = <<>> THEN {None} ELSE Range(groupTabs))
    /\ run = NoRun
    /\ suspended = <<>>

\* the one tab change from outside
ExternalTabChange == op = "init" /\ TabChange

NextQuiesce ==
    ExternalTabChange \/ OrganizeOnTabChange \/ ShowTextDocument \/ MoveEditor \/ Resume

SpecQuiesce == InitQuiesce /\ [][NextQuiesce]_vars

\* every listener makes the call it owes: nothing else can happen while a call is
\* owed, so this is weak fairness of OrganizeOnTabChange
CallsMade == []<>(triggered = 0)

\* every event reaches its listener, every awaited promise resolves and every
\* continuation gets its turn
FairQuiesce ==
    /\ SpecQuiesce
    /\ CallsMade
    /\ WF_vars(ShowTextDocument \/ MoveEditor)
    /\ WF_vars(Resume)

(***************************************************************************)
(* SpecReentrant: the command is run at any time, with auto-organize       *)
(* enabled or disabled; with it enabled the tab changes of the runs call   *)
(* organize as well.                                                       *)
(***************************************************************************)
InitReentrant ==
    /\ fileText \in [QuiesceFiles -> QuiesceTexts]
    /\ existing = Disk \cup {<< <<>>, <<"u">> >>, ThirdDir, FileIn(ThirdDir, "a"), ThirdC}
    /\ workspaceRoot = WorkspaceDir
    /\ configs = <<TsConfig>>
    /\ probe = NoProbe
    /\ matching = NoMatching
    /\ FreshStrategy
    /\ configuration \in [autoOrganize : BOOLEAN, sortStrategy : {"imports"}]
    /\ Constructed
    /\ groupTabs \in InjectiveSeqs(QuiesceTabUniverse, MaxTabs)
    /\ activeTab \in (IF groupTabs = <<>> THEN {None} ELSE Range(groupTabs))
    /\ run = NoRun
    /\ suspended = <<>>

NextReentrant == OrganizeInvoked \/ ShowTextDocument \/ MoveEditor \/ Resume

SpecReentrant == InitReentrant /\ [][NextReentrant]_vars

(***************************************************************************)
(* Vocabulary of the properties: the matched dependency graph of the last  *)
(* sort call, stated from importGraph and the open paths.                  *)
(***************************************************************************)
OpenPaths == lastCalc.tabPaths
OpenPathSet == Range(OpenPaths)
Depth(p) == lastCalc.depths[p]

\* the matched edges, one per (importer, resolved reference): <<importer, target>>
MatchedEdgeList ==
    { <<e[1], e[2], FindMatchingTabPath(importGraph[e[1]][e[2]], OpenPaths)>> :
        e \in {d \in GraphEdges(importGraph) :
                 FindMatchingTabPath(importGraph[d[1]][d[2]], OpenPaths) # None} }

MatchedEdges == {<<e[1], e[3]>> : e \in MatchedEdgeList}

InDegree(p) == Cardinality({e \in MatchedEdgeList : e[3] = p})

RECURSIVE TransitiveClosure(_)
TransitiveClosure(R) ==
    LET step == R \cup {<<ab[1][1], ab[2][2]>> : ab \in {cd \in R \X R : cd[1][2] = cd[2][1]}}
    IN IF step = R THEN R ELSE TransitiveClosure(step)

Reaches == TransitiveClosure(MatchedEdges)
OnCycle(p) == <<p, p>> \in Reaches
Acyclic == \A p \in OpenPathSet : ~OnCycle(p)

Count(x, seq) == Cardinality({i \in 1..Len(seq) : seq[i] = x})

\* every tab of path x stands before every tab of path y in the output
PlacedBefore(x, y) ==
    \A i, j \in 1..Len(lastSorted) :
        (lastSorted[i].path = x /\ lastSorted[j].path = y) => i < j

\* some tab of path y stood before some tab of path x in the input
InputHad(y, x) ==
    \E i, j \in 1..Len(lastTabs) : i < j /\ lastTabs[i].path = y /\ lastTabs[j].path = x

(***************************************************************************)
(* Properties of one sort call (SpecSort)                                  *)
(***************************************************************************)
\* C1: sort returns a permutation of its input: every input tab appears exactly
\* once in the output and no other tab appears.
C1_SortReturnsPermutation ==
    op = "sort" =>
        /\ Len(lastSorted) = Len(lastTabs)
        /\ \A t \in Range(lastTabs) \cup Range(lastSorted) :
              Count(t, lastSorted) = Count(t, lastTabs)

\* a sort call on a tab without a path and files on a cycle that reordered its input
C1_Witness ==
    /\ op = "sort"
    /\ TabNoPath \in Range(lastTabs)
    /\ \E p \in OpenPathSet : OnCycle(p)
    /\ lastSorted # lastTabs

C3_RootsHaveDepthZero ==
    op = "sort" => \A p \in OpenPathSet : InDegree(p) = 0 => Depth(p) = 0

\* two files nothing imports, beside a file on a cycle
C3_Witness ==
    /\ op = "sort"
    /\ \E p, q \in OpenPathSet : p # q /\ InDegree(p) = 0 /\ InDegree(q) = 0
    /\ \E p \in OpenPathSet : OnCycle(p)

\* C4: when no open file has matched in-degree 0, the queue starts (and stays)
\* empty and every open file gets depth 1.
C4_NoRootsAllDepthOne ==
    (op = "sort" /\ \A p \in OpenPathSet : InDegree(p) > 0) =>
        /\ lastCalc.enqueued = {}
        /\ \A p \in OpenPathSet : Depth(p) = 1

\* only two open files, each referencing the other
C4_Witness ==
    /\ op = "sort"
    /\ Cardinality(OpenPathSet) = 2
    /\ \A p \in OpenPathSet : InDegree(p) = 1 /\ OnCycle(p) /\ <<p, p>> \notin MatchedEdges

\* C5: every open file that was never enqueued has depth (maximum depth assigned
\* during the traversal, default 0) + 1.
C5_NeverEnqueuedGetMaxPlusOne ==
    op = "sort" =>
        \A p \in OpenPathSet \ lastCalc.enqueued : Depth(p) = lastCalc.maxDepth + 1

C7_SecondSortSameOrder ==
    [][(op = "sort" /\ op' = "sort" /\ lastTabs' = lastTabs) => lastSorted' = lastSorted]_vars

\* the second of two such calls has returned, on files that import each other's
\* paths, with an ordering that differs from the input
C7_Witness ==
    /\ repeated
    /\ op = "sort"
    /\ MatchedEdges # {}
    /\ lastSorted # lastTabs

\* what extractImports would compute for a file from its current text
FreshImports(filePath) ==
    ExtractImports(Env, [Strategy EXCEPT !.importCache = EmptyMap], filePath).imports

\* C8: a populated cache entry stays as it is until clearCache is called, and
\* every sort call uses it for its path, whatever the file's text has become.
C8_CacheEntryReusedUntilCleared ==
    [][op' # "clearCache" =>
          \A p \in DOMAIN importCache :
              /\ p \in DOMAIN importCache'
              /\ importCache'[p] = importCache[p]
              /\ (op' = "sort" /\ p \in DOMAIN importGraph') => importGraph'[p] = importCache[p]
      ]_vars

\* a sort call has just used, for an open file, references that the file's
\* current text no longer yields
C8_Witness ==
    /\ op = "sort"
    /\ \E p \in DOMAIN importGraph :
          /\ importGraph[p] # FreshImports(p)
          /\ importGraph[p] = importCache[p]

(***************************************************************************)
(* Properties of resolveWithExtensions (SpecResolve)                       *)
(***************************************************************************)
Candidate == CandidateOf(probe.importPath)

\* result is the first member of order that the probe reports, None when there is none
FirstReported(order, result) ==
    \/ /\ result = None
       /\ \A i \in 1..Len(order) : order[i] \notin existing
    \/ \E i \in 1..Len(order) :
          /\ result = order[i]
          /\ order[i] \in existing
          /\ \A j \in 1..(i - 1) : order[j] \notin existing

IndexOrder(c) ==
    <<IndexOf(c, ".ts"), IndexOf(c, ".tsx"), IndexOf(c, ".js"), IndexOf(c, ".jsx")>>

\* C9 as stated: the first existing path in the order C, C.ts, C.tsx, C.js, C.jsx,
\* C/index.ts, C/index.tsx, C/index.js, C/index.jsx is returned, nothing when
\* none exists.
C9_BareCandidateFirst ==
    probe.called =>
        FirstReported(<<Candidate, WithExt(Candidate, ".ts"), WithExt(Candidate, ".tsx"),
                        WithExt(Candidate, ".js"), WithExt(Candidate, ".jsx")>>
                          \o IndexOrder(Candidate),
                      probe.result)

\* C9 amended: the first existing path in the order C.ts, C.tsx, C.js, C.jsx, C,
\* C/index.ts, C/index.tsx, C/index.js, C/index.jsx is returned, nothing when
\* none exists.
C9_ExtensionsBeforeBareCandidate ==
    probe.called =>
        FirstReported(<<WithExt(Candidate, ".ts"), WithExt(Candidate, ".tsx"),
                        WithExt(Candidate, ".js"), WithExt(Candidate, ".jsx"), Candidate>>
                          \o IndexOrder(Candidate),
                      probe.result)

\* the probe reports the bare candidate and C.js, and C.js was returned
C9_Witness ==
    /\ probe.called
    /\ Candidate \in existing
    /\ WithExt(Candidate, ".js") \in existing
    /\ WithExt(Candidate, ".ts") \notin existing
    /\ probe.result = WithExt(Candidate, ".js")

\* C10: when C/index.ts exists and none of C.ts, C.tsx, C.js, C.jsx does,
\* whatever the probe reports for C itself, C/index.ts is returned.
C10_IndexFileFound ==
    (/\ probe.called
     /\ IndexOf(Candidate, ".ts") \in existing
     /\ \A e \in {".ts", ".tsx", ".js", ".jsx"} : WithExt(Candidate, e) \notin existing)
        => probe.result = IndexOf(Candidate, ".ts")

(***************************************************************************)
(* Properties of alias resolution (SpecAlias)                              *)
(***************************************************************************)
Min(S) == CHOOSE x \in S : \A y \in S : x <= y

\* r is a followed by "/" and more: the segments of a are the first segments of r
FollowedBySlash(r, a) == Len(r) > Len(a) /\ SubSeq(r, 1, Len(a)) = a

\* r without the prefix a, for FollowedBySlash(r, a) or r = a
RestAfter(r, a) == << <<>> >> \o SubSeq(r, Len(a) + 1, Len(r))

\* a is a prefix of r that ends where a path segment of r ends: a ends with "/"
\* or is followed by "/" in r
SegmentPrefix(r, a) ==
    /\ r # a
    /\ StartsWith(r, a)
    /\ (Len(a) >= 2 /\ Last(a) = <<>>) \/ StartsWith(r, StrCat(a, Slash))

\* the indices of the loaded table's entries that the reference equals or has
\* as a path-segment prefix
HitsSegmentPrefix ==
    {i \in 1..Len(pathAliases.map) :
        \/ probe.importPath = pathAliases.map[i].alias
        \/ SegmentPrefix(probe.importPath, pathAliases.map[i].alias)}

\* the indices of the loaded table's entries that the reference equals or starts
\* with, followed by "/"
HitsFollowedBySlash ==
    {i \in 1..Len(pathAliases.map) :
        \/ probe.importPath = pathAliases.map[i].alias
        \/ FollowedBySlash(probe.importPath, pathAliases.map[i].alias)}

\* the call returned what probing join(baseUrl, target + rest) returns, for the
\* first entry among hits; nothing when there is none
RewrittenByFirst(hits) ==
    IF hits = {} \/ baseUrl = None THEN probe.result = None
    ELSE LET e == pathAliases.map[Min(hits)] IN
         probe.result = ResolveWithExtensions(existing,
                            PathJoin(baseUrl, StrCat(e.target, SliceAfter(probe.importPath, e.alias))))

\* C11 as stated: the reference is rewritten by the (first) table entry a -> t
\* that it equals or has as a path-segment prefix, so that the entry "@/" -> "s/"
\* sends @/c to the candidate <base>/s/c.
C11_SegmentPrefixAliasRewrites == probe.called => RewrittenByFirst(HitsSegmentPrefix)

\* C11 amended: the reference is rewritten by the first table entry a -> t, in
\* table order, that it equals or that it starts with followed by "/" (rest is
\* then "/" and the following segments); an alias that itself ends with "/" is
\* no such prefix of @/c.
C11_AliasFollowedBySlashRewrites ==
    probe.called =>
        /\ RewrittenByFirst(HitsFollowedBySlash)
        /\ \A i \in HitsFollowedBySlash :
              SliceAfter(probe.importPath, pathAliases.map[i].alias)
                  = IF probe.importPath = pathAliases.map[i].alias THEN EmptyStr
                    ELSE RestAfter(probe.importPath, pathAliases.map[i].alias)

\* @/c was resolved to an existing file through the second of two entries, the
\* first one being the alias "@/" that it does not match
C11_Witness ==
    /\ probe.called
    /\ probe.importPath = RefC
    /\ Len(pathAliases.map) = 2
    /\ pathAliases.map[1].alias = RefAtSlash
    /\ HitsFollowedBySlash = {2}
    /\ probe.result \in Disk

(***************************************************************************)
(* Properties of findMatchingTabPath (SpecMatch)                           *)
(***************************************************************************)
\* the number of consecutive equal trailing segments of two paths
SharedTrailing(x, y) ==
    Max({n \in 0..Min({Len(x), Len(y)}) :
            \A i \in 1..n : x[Len(x) - i + 1] = y[Len(y) - i + 1]})

TreeA == Under(<<"w", "x", "s">>, "a")
TreeB == Under(<<"v", "y", "s">>, "a")

\* C12: a returned open path other than the resolved path itself shares at least
\* two trailing segments with it; when no open path is the resolved path or
\* shares two trailing segments with it, nothing is returned; the resolved path
\* /v/y/s/a.ts is matched to the only open file /w/x/s/a.ts.
C12_MatchNeedsTwoTrailingSegments ==
    matching.called =>
        /\ (matching.result # None /\ matching.result # matching.resolvedPath) =>
              /\ InSeq(matching.result, matching.tabPaths)
              /\ SharedTrailing(matching.result, matching.resolvedPath) >= 2
        /\ (\A k \in 1..Len(matching.tabPaths) :
                /\ matching.tabPaths[k] # matching.resolvedPath
                /\ SharedTrailing(matching.tabPaths[k], matching.resolvedPath) < 2)
              => matching.result = None
        /\ (matching.resolvedPath = TreeB /\ matching.tabPaths = <<TreeA>>)
              => matching.result = TreeA

\* an open file of the same name in another directory came first and was passed
\* over for a later open file that shares the directory too
C12_Witness ==
    /\ matching.called
    /\ Len(matching.tabPaths) >= 2
    /\ SharedTrailing(matching.tabPaths[1], matching.resolvedPath) = 1
    /\ matching.result # None
    /\ matching.result # matching.resolvedPath
    /\ matching.result # matching.tabPaths[1]

(***************************************************************************)
(* Properties of the TabOrganizer's listeners (SpecAuto)                   *)
(***************************************************************************)
\* C13: once auto-organize is off (the field is false, the setting is false and
\* no configuration update is in flight), a tab-change event calls organize no
\* time.
C13_DisabledStopsOrganize ==
    (/\ op = "tabChange"
     /\ ~autoOrganize
     /\ ~configuration.autoOrganize
     /\ pendingUpdates = <<>>)
        => triggered = 0

(***************************************************************************)
(* Properties of one organize run (SpecOrganize)                           *)
(***************************************************************************)
\* C14: when the run has finished on a group all of whose tabs have a uri, the
\* tab at position i of the group is sortedTabs[i], for every i.
C14_GroupEndsInSortedOrder ==
    (run.pc = "done" /\ \A k \in 1..Len(groupTabs) : GetTabPath(groupTabs[k]) # None) =>
        /\ Len(groupTabs) = Len(run.sortedTabs)
        /\ \A k \in 1..Len(groupTabs) : groupTabs[k] = run.sortedTabs[k]

\* the run has finished on three tabs with uris that stood in the reverse of the
\* sorted order
C14_Witness ==
    /\ run.pc = "done"
    /\ Len(groupTabs) = 3
    /\ \A k \in 1..3 : GetTabPath(groupTabs[k]) # None
    /\ \A k \in 1..3 : lastTabs[k] = run.sortedTabs[4 - k]
    /\ groupTabs # lastTabs

(***************************************************************************)
(* Properties of the depths on graphs with cycles (SpecSort)               *)
(***************************************************************************)
\* the open files with a matched edge to p
Predecessors(p) == {e[1] : e \in {d \in MatchedEdges : d[2] = p}}

\* C15: every open file that got its depth during the queue traversal (not by
\* the leftover rule) has the depth max over its matched predecessors P of
\* depth(P) + 1 (0 without predecessors), on every graph, cyclic ones included.
C15_DepthIsLongestPath ==
    op = "sort" =>
        \A p \in lastCalc.traversed :
            Depth(p) = Max({0} \cup {Depth(q) + 1 : q \in Predecessors(p)})

\* p is reachable from a file on a cycle
BelowCycle(p) == \E q \in OpenPathSet : OnCycle(q) /\ <<q, p>> \in Reaches

\* C16: every open file on a cycle of matched edges has a depth strictly greater
\* than the depth of every open file that is on no cycle and not reachable from
\* one.
C16_CyclicFilesDeepest ==
    op = "sort" =>
        \A p, q \in OpenPathSet :
            (OnCycle(p) /\ ~OnCycle(q) /\ ~BelowCycle(q)) => Depth(p) > Depth(q)

\* the resolved reference of an edge of the graph
Imported(e) == importGraph[e[1]][e[2]]

\* the open path p is the resolved path r or shares two trailing segments with it
Corresponds(r, p) == r = p \/ SharedTrailing(r, p) >= 2

DeclaresAliases(c) ==
    /\ c.exists
    /\ c.parses
    /\ c.paths # <<>>
    /\ \A j \in 1..Len(c.paths) : c.paths[j].isArray => c.paths[j].firstIsString

\* the table and the base directory such a candidate stands for, written out for
\* the candidates of ConfigCandidates
TableOf(c) ==
    IF c = ConfigAt THEN << [alias |-> << <<"@">> >>, target |-> << <<"s">> >>] >>
    ELSE << [alias |-> << <<"~">> >>, target |-> << <<"v">>, <<"s">> >>],
            [alias |-> << <<"@">>, <<"c">> >>, target |-> << <<"s">>, <<"b">> >>] >>

BaseOf(c) == IF c = ConfigAt THEN WorkspaceDir ELSE << <<>>, <<"v">> >>

FirstDeclaring == {i \in 1..Len(configs) :
                      DeclaresAliases(configs[i]) /\ \A j \in 1..(i - 1) : ~DeclaresAliases(configs[j])}

\* C18: a candidate whose reading, parsing or processing raises an error
\* contributes nothing: after loading, the table and the base directory are those
\* of the first candidate that declares aliases without an error, and the empty
\* table and no base directory when there is none.
C18_FailedCandidateContributesNothing ==
    (probe.called /\ workspaceRoot # None) =>
        /\ pathAliases.loaded
        /\ IF FirstDeclaring = {}
           THEN pathAliases.map = <<>> /\ baseUrl = None
           ELSE \A i \in FirstDeclaring :
                   /\ pathAliases.map = TableOf(configs[i])
                   /\ baseUrl = BaseOf(configs[i])

(***************************************************************************)
(* Properties of the alias table over a life (SpecReload)                  *)
(***************************************************************************)
\* what the references of a file of SpecReload resolve to under a table and a
\* base directory, written out: "@/c" is <base>/<target of "@">/c.ts
ResolvedUnder(table, base, filePath) ==
    IF fileText[filePath].refs = <<>> \/ table = <<>> \/ base = None THEN <<>>
    ELSE << base \o table[1].target \o << <<"c", ".ts">> >> >>

\* the table a scan of the present environment would produce differs from the
\* table the strategy holds
EnvironmentMovedOn ==
    LoadPathAliases(NullAliases, None, workspaceRoot, configs)
        # [pathAliases |-> pathAliases, baseUrl |-> baseUrl]

\* C19: once loadPathAliases has made its attempt, no step other than clearCache
\* changes the table or the base directory, whatever the attempt found and
\* whatever the config candidates and the workspace folder have become; every
\* file a later sort call extracts is resolved with that table.
C19_AliasesScannedOnce ==
    [][(pathAliases.loaded /\ op' # "clearCache") =>
          /\ pathAliases' = pathAliases
          /\ baseUrl' = baseUrl
          /\ \A p \in DOMAIN importCache' \ DOMAIN importCache :
                importCache'[p] = ResolvedUnder(pathAliases.map, baseUrl, p)
      ]_vars

\* a sort call has run with an empty table from an earlier attempt while a scan
\* of the present environment would find aliases, and a file that imports "@/c"
\* is cached with no resolved reference
C19_Witness ==
    /\ op = "sort"
    /\ pathAliases.loaded
    /\ pathAliases.map = <<>>
    /\ EnvironmentMovedOn
    /\ \E t \in Range(lastTabs) :
          /\ fileText[t.path].refs = <<RefC>>
          /\ importCache[t.path] = <<>>

(***************************************************************************)
(* Properties of extraction from unreadable files (SpecUnreadable)         *)
(***************************************************************************)
\* C20: a sort call that meets a file it cannot read returns its whole output and
\* leaves the file cached with no reference; until clearCache the entry stays
\* empty and every sort call uses it, whatever the file has become.
C20_ReadFailureCachedEmpty ==
    [][ /\ (op' = "sort") =>
              (\A k \in 1..Len(lastTabs') :
                  LET p == GetTabPath(lastTabs'[k]) IN
                  (p # None /\ p \notin DOMAIN importCache /\ ~fileText[p].readable) =>
                      (/\ p \in DOMAIN importCache'
                       /\ importCache'[p] = <<>>
                       /\ importGraph'[p] = <<>>
                       /\ Len(lastSorted') = Len(lastTabs')))
        /\ (op' # "clearCache") =>
              (\A p \in DOMAIN importCache :
                  (importCache[p] = <<>>) =>
                      (/\ p \in DOMAIN importCache'
                       /\ importCache'[p] = <<>>
                       /\ ((op' = "sort" /\ p \in DOMAIN importGraph') =>
                              importGraph'[p] = <<>>)))
      ]_vars

\* a sort call has used the empty entry of a file that is readable by now and
\* imports the other open file
C20_Witness ==
    /\ op = "sort"
    /\ \E p \in DOMAIN importGraph :
          /\ fileText[p].readable
          /\ FreshImports(p) # <<>>
          /\ FreshImports(p)[1] \in OpenPathSet \ {p}
          /\ importCache[p] = <<>>
          /\ importGraph[p] = <<>>
          /\ Depth(p) = 0

(***************************************************************************)
(* Properties of the alias tie-break (SpecAlias)                           *)
(***************************************************************************)
\* the candidate of the table's entry i for the reference: the target, then the
\* segments of the reference after the alias, under the base directory
AliasCandidate(i) ==
    LET e == pathAliases.map[i]
        r == probe.importPath
    IN PathJoin(baseUrl, IF r = e.alias THEN e.target
                         ELSE e.target \o SubSeq(r, Len(e.alias) + 1, Len(r)))

\* C21: the first entry of the table, in insertion order, whose alias the
\* reference equals or has as a path-segment prefix decides: the call returns
\* what extension probing returns for that entry's candidate, nothing when that
\* is nothing, whatever later entries would give; without such an entry the call
\* returns nothing.
C21_FirstMatchingAliasDecides ==
    (probe.called /\ baseUrl # None) =>
        /\ HitsFollowedBySlash = {} => probe.result = None
        /\ \A i \in HitsFollowedBySlash :
              (\A j \in HitsFollowedBySlash : i <= j) =>
                  /\ probe.result = ResolveWithExtensions(existing, AliasCandidate(i))
                  /\ (\A c \in ProbePaths(AliasCandidate(i)) : c \notin existing)
                        => probe.result = None

\* the first entry "@" sends @/c to a candidate that does not exist and the call
\* returned nothing, while the later, more specific entry "@/c" has a candidate
\* that extension probing finds
C21_Witness ==
    /\ probe.called
    /\ baseUrl # None
    /\ probe.importPath = RefC
    /\ HitsFollowedBySlash = {1, 2}
    /\ pathAliases.map[1].alias = RefAt
    /\ pathAliases.map[2].alias = << <<"@">>, <<"c">> >>
    /\ ResolveWithExtensions(existing, AliasCandidate(2)) \in Disk
    /\ probe.result = None

(***************************************************************************)
(* Properties of the choice among suffix matches (SpecMatch)               *)
(***************************************************************************)
\* the positions, in the iteration order of the open-path set, of the open paths
\* that share at least two trailing segments with the resolved path
SuffixMatches ==
    {k \in 1..Len(matching.tabPaths) :
        SharedTrailing(matching.tabPaths[k], matching.resolvedPath) >= 2}

\* those among them that share the most trailing segments
LongestSuffixMatches ==
    {k \in SuffixMatches :
        \A j \in SuffixMatches :
            SharedTrailing(matching.tabPaths[j], matching.resolvedPath)
                <= SharedTrailing(matching.tabPaths[k], matching.resolvedPath)}

\* C22: when the resolved path is no open path, the call returns the first, in
\* the iteration order of the open-path set, of the open paths that share the
\* greatest number (at least two) of trailing segments with it.
C22_LongestSuffixFirstEvaluatedWins ==
    (matching.called /\ ~InSeq(matching.resolvedPath, matching.tabPaths)
        /\ SuffixMatches # {}) =>
        /\ LongestSuffixMatches # {}
        /\ matching.result = matching.tabPaths[Min(LongestSuffixMatches)]

\* three open paths match: the first shares two trailing segments, the second
\* and the third share three, and the second was returned
C22_Witness ==
    /\ matching.called
    /\ ~InSeq(matching.resolvedPath, matching.tabPaths)
    /\ SuffixMatches = {1, 2, 3}
    /\ LongestSuffixMatches = {2, 3}
    /\ SharedTrailing(matching.tabPaths[2], matching.resolvedPath) = 3
    /\ matching.result = matching.tabPaths[2]

(***************************************************************************)
(* Properties of the graph over several sort calls (Spec)                  *)
(***************************************************************************)
\* the references, as held by the extraction cache, of the files open in the
\* last sort call that are matched to the open file p: <<importer, position>>
OpenReferencesTo(p) ==
    {e \in GraphEdges([q \in OpenPathSet \cap DOMAIN importCache |-> importCache[q]]) :
        FindMatchingTabPath(importCache[e[1]][e[2]], OpenPaths) = p}

\* C23: after a sort call the keys of the graph are exactly the paths of the
\* call's tabs; the in-degree of an open file counts the references of the open
\* files only, and an open file that no open file refers to has depth 0,
\* whatever the files of earlier calls, still in the cache, refer to.
C23_GraphHasOnlyOpenFiles ==
    op = "sort" =>
        /\ DOMAIN importGraph = {GetTabPath(t) : t \in Range(lastTabs)} \ {None}
        /\ \A p \in OpenPathSet :
              /\ lastCalc.incomingCount[p] = Cardinality(OpenReferencesTo(p))
              /\ OpenReferencesTo(p) = {} => Depth(p) = 0

\* a.ts, open in an earlier call and cached with its reference to b.ts, is not
\* open in the last call, in which b.ts has in-degree 0 and depth 0
C23_Witness ==
    /\ op = "sort"
    /\ OpenPathSet = {PathB}
    /\ PathA \in DOMAIN importCache
    /\ InSeq(PathB, importCache[PathA])
    /\ PathA \notin DOMAIN importGraph
    /\ lastCalc.incomingCount[PathB] = 0
    /\ Depth(PathB) = 0

(***************************************************************************)
(* Properties of the depth map (SpecSort)                                  *)
(***************************************************************************)
\* C24: the map calculateImportScores returns has exactly the paths of the tabs
\* that have a path as its keys, the traversal gives a depth to no other path,
\* and every value is a non-negative integer.
C24_DepthMapCoversOpenPaths ==
    op = "sort" =>
        /\ DOMAIN lastCalc.depths = {GetTabPath(t) : t \in Range(lastTabs)} \ {None}
        /\ lastCalc.traversed \subseteq DOMAIN lastCalc.depths
        /\ \A p \in DOMAIN lastCalc.depths : lastCalc.depths[p] \in Nat

\* a sort call on a tab without a path and a file that only the leftover rule
\* gives a depth to, with a reference that is matched by its suffix
C24_Witness ==
    /\ op = "sort"
    /\ \E t \in Range(lastTabs) : GetTabPath(t) = None
    /\ \E p \in OpenPathSet : p \notin lastCalc.traversed /\ Depth(p) >= 1
    /\ \E r \in DOMAIN lastCalc.resolvedToTabPath : r \notin OpenPathSet

(***************************************************************************)
(* Properties of sort calls on the same tabs in another order (SpecResort) *)
(***************************************************************************)
SameTabs(x, y) == Len(x) = Len(y) /\ Range(x) = Range(y)

\* some resolved reference of an open file is no open path and shares its
\* greatest number (at least two) of trailing segments with several open paths
TiedMatch ==
    \E e \in GraphEdges(importGraph) :
        /\ Imported(e) \notin OpenPathSet
        /\ Cardinality({p \in OpenPathSet :
              /\ SharedTrailing(p, Imported(e)) >= 2
              /\ \A q \in OpenPathSet :
                    SharedTrailing(q, Imported(e)) <= SharedTrailing(p, Imported(e))}) >= 2

\* the tabs of a sequence that compare equal to the tab t (the same path, or no
\* path either), in the order of the sequence
EqualTabs(seq, t) == SelectSeq(seq, LAMBDA u : GetTabPath(u) = GetTabPath(t))

PathsOf(seq) == [k \in 1..Len(seq) |-> GetTabPath(seq[k])]

\* C25 as stated: a sort call on the tabs of the previous sort call, in whatever
\* order (that of the previous output included), returns the previous output.
C25_OrderIndependent ==
    [][(op = "sort" /\ op' = "sort" /\ SameTabs(lastTabs', lastTabs))
          => lastSorted' = lastSorted]_vars

\* C25 amended: unless a reference is matched by its suffix to several open
\* paths equally well, a sort call on its own output returns it unchanged, and
\* a sort call on the same tabs in another order returns the same sequence of
\* paths, tabs of one path and tabs without a path standing in their input order.
C25_OrderIndependentWithoutTies ==
    [][(op = "sort" /\ op' = "sort" /\ SameTabs(lastTabs', lastTabs) /\ ~TiedMatch)
          => /\ lastTabs' = lastSorted => lastSorted' = lastSorted
             /\ PathsOf(lastSorted') = PathsOf(lastSorted)
             /\ \A t \in Range(lastTabs') :
                   EqualTabs(lastSorted', t) = EqualTabs(lastTabs', t)]_vars

\* a sort call on the output of the sort call before it: three tabs, two of them
\* on a.ts, which imports c.ts, matched by its suffix to the only open c.ts
C25_Witness ==
    /\ op = "sort"
    /\ repeated
    /\ ~TiedMatch
    /\ lastTabs = lastSorted
    /\ Len(lastTabs) = 3
    /\ MatchedEdges # {}
    /\ \E i, j \in 1..3 : i < j /\ GetTabPath(lastTabs[i]) = PathA /\ GetTabPath(lastTabs[j]) = PathA

\* no organize call is owed and no run is in flight
Quiescent == triggered = 0 /\ ~InFlight(run) /\ suspended = <<>>

\* a listener owes a call while MaxRuns runs are in flight
Saturated == triggered > 0 /\ InFlight(run) /\ Len(suspended) + 2 > MaxRuns

\* C26: after the one tab change from outside the system comes to rest for good, in
\* every behaviour that keeps within MaxRuns runs in flight.
C26_EventuallyQuiescent == <>[]Quiescent \/ <>Saturated

\* the runs that have activated a tab and have not made the last move of that tab
MovingRuns == {k \in 1..Len(suspended) : suspended[k].pc = "move"}

\* the step is a move command of the run whose continuation is next
MoveStep == run.pc = "move" /\ triggered = 0 /\ op' = Command(run.delta)

\* C27: at most one run has a tab activated and its moves outstanding, and every move
\* command acts on the tab that the issuing run activated.
C27_OneRunMovesAtATime ==
    /\ [](Cardinality(MovingRuns) + (IF run.pc = "move" THEN 1 ELSE 0) <= 1)
    /\ [][MoveStep => activeTab = run.sortedTabs[run.targetIndex + 1]]_vars

\* C27, its last part alone: every move command acts on the tab that the issuing run
\* activated.
C27_MoveActsOnActivatedTab ==
    [][MoveStep => activeTab = run.sortedTabs[run.targetIndex + 1]]_vars

\* the tabs at positions i < j of the output have paths of the same depth
SameDepthPair(i, j) ==
    /\ i < j
    /\ lastSorted[i].path # None
    /\ lastSorted[j].path # None
    /\ Depth(lastSorted[i].path) = Depth(lastSorted[j].path)

\* the letters of the string, case set aside, and its other characters
Primaries(s) == [k \in 1..Len(StringChars(s)) |-> PrimaryWeight(StringChars(s)[k])]

\* which characters of the string are upper case
Cases(s) == [k \in 1..Len(StringChars(s)) |-> TertiaryWeight(StringChars(s)[k])]

\* C28 as stated: tabs of the same depth stand in ascending code-point order of
\* their paths.
C28_TiesInCodePointOrder ==
    op = "sort" =>
        \A i, j \in 1..Len(lastSorted) :
            SameDepthPair(i, j) =>
                CodePointCompare(lastSorted[i].path, lastSorted[j].path) <= 0

\* C28 amended: tabs of the same depth stand in ascending collation order of their
\* paths: the first difference with case set aside decides, and between paths that
\* differ in case only the first difference in case, lower case first.
C28_TiesInCollationOrder ==
    op = "sort" =>
        \A i, j \in 1..Len(lastSorted) :
            SameDepthPair(i, j) =>
                LET x == lastSorted[i].path
                    y == lastSorted[j].path
                IN /\ LexCompare(Primaries(x), Primaries(y)) <= 0
                   /\ Primaries(x) = Primaries(y) => LexCompare(Cases(x), Cases(y)) <= 0

\* a.ts, b.ts and B.ts came out at depth 0 in this order: a.ts before B.ts against
\* the code points, b.ts before B.ts by case
C28_Witness ==
    /\ op = "sort"
    /\ lastSorted = <<TabA, TabB, TabUpperB>>
    /\ lastTabs = <<TabUpperB, TabB, TabA>>
    /\ \A k \in 1..3 : Depth(lastSorted[k].path) = 0

====
